---- MODULE Spec2Model ----
(***************************************************************************)
(* Mullvad Server Finder: the candidate-selection pipeline behind          *)
(* GET /api/closest and the TCP reachability probe.                        *)
(*                                                                         *)
(* Two versions of the /api/closest handler exist in the repository:       *)
(*   - "clientSide": src/server.js:197-271 (no probe, up to 25 candidates) *)
(*   - "hybrid":     src/README.md:278-405 (probes, top 5 by latency)      *)
(* Both are modelled; the variable handler says which one serves the       *)
(* request.                                                                *)
(*                                                                         *)
(* Encoding of JavaScript values: numbers are integers; null, undefined    *)
(* and NaN are three integers outside every data range.  A hostname is an  *)
(* integer HostName(city, k); the placeholder `${city_code}-server` is     *)
(* PlaceholderName(city_code).  Coordinates lie on a 60-degree grid, on    *)
(* which the haversine term a is an exact multiple of 1/16; the calls of   *)
(* haversineDistance also take antipodal points of low latitude, where the *)
(* rounding of a in IEEE doubles is tabulated.                             *)
(*                                                                         *)
(* Specifications: Spec (one request), SpecRepeat (the same request        *)
(* twice), SpecConcurrent and FairSpecConcurrent (hybrid STEP 4 promise by *)
(* promise), SpecPair (two requests in one process), SpecProbe (one probe, *)
(* socket by socket), SpecPing (GET /api/ping/:hostname), SpecDistance     *)
(* (calls of haversineDistance), and for the page script                   *)
(* src/unnamed/part_001: SpecCards (city cards), SpecList (the server list *)
(* of a card), SpecFind and FairSpecFind (the Find Closest Server button). *)
(***************************************************************************)
EXTENDS Integers, Sequences, FiniteSets, TLC

VARIABLES
    \* ---- the store (Supabase) and the network: environment of a request
    locations,      \* rows of server_locations joined with cities, in query order
    servers,        \* city_code -> rows of table servers (Null: the query fails)
    net,            \* ipv4 address -> port -> outcome of a connection attempt
    \* ---- one /api/closest request
    handler,        \* "clientSide" (server.js) or "hybrid" (README.md)
    pc,             \* position of the handler
    query,          \* req.query: [lat, lon], each a sequence of characters
    lat, lon,       \* parseFloat of the two query parameters
    fetchError,     \* whether the server_locations query failed (error logged)
    locationsWithDistance,  \* STEP 2: the located locations, sorted by distance
    topCandidates,  \* STEP 3: the geographic shortlist
    latencyTests,   \* hybrid STEP 4 results, one per shortlisted location
    response,       \* [status, body] once sent
    catalogCalls,   \* number of server_locations queries issued
    serverQueries,  \* city codes whose servers were queried, in issue order
    attempts,       \* <<address, port>> connection attempts issued
    \* ---- one probe, testServerLatency(hostname), at socket granularity
    ppc,            \* position of testServerLatency: "idle", "await", "done"
    probeHost,      \* its hostname argument
    sockets,        \* the socket of every testTCPLatency call so far, in call order
    resolved,       \* what the promise of the latest call resolved with, or Pending
    probeResult,    \* what testServerLatency returned, or Pending
    \* ---- successive requests to the same handler
    requests,       \* number of requests answered so far
    previous,       \* the coordinate and the response of the request before
    \* ---- hybrid STEP 4 at the granularity of its promises
    memberFetch,    \* per shortlisted location: its servers query, "issued" or "returned"
    probes,         \* per shortlisted location, per member: position of testServerLatency
    \* ---- calls of haversineDistance
    points,         \* the two points the calls are made on
    calls,          \* the calls made: arguments and returned value
    \* ---- one GET /api/ping/:hostname request
    lookup,         \* what the query on table servers by hostname does
    pingHost,       \* req.params.hostname
    pingPc,         \* position of the handler
    pingResponse,   \* [http, hostname, latency, status] once sent
    \* ---- a second /api/closest request, handled by the same process
    running,        \* the request whose locals the request variables hold: 1 or 2
    parked,         \* the locals of the other request, waiting at an await
    overlapped,     \* whether the two requests were in flight at the same time
    \* ---- the page: the city cards rendered by renderCities
    cards,          \* per card: display of its server list, serversLoaded, the
                    \* loadCityServers calls made and in flight, what the list shows
    clicks,         \* clicks on city headers so far
    \* ---- the page: the server list loadCityServers renders in a card
    serverDataList, \* per server: its latency field (null until tested)
    testAllButton,  \* the Test All button: disabled, attached (in the list and displayed)
    runs,           \* the Test All runs in flight: per run the servers not yet answered
    pings,          \* per server: individual pings in flight
    pingButtons,    \* per server: whether its Test Latency button is disabled
    latencyResult,  \* per server: what its latency cell shows
    latest,         \* per server: the latest /api/ping response received, and
                    \* whether the list was rendered since
    pingClicks,     \* clicks on Test Latency buttons so far
    \* ---- the page: the Find Closest Server button
    geolocation,    \* whether navigator.geolocation exists
    findClosestBtn, \* its disabled property
    findPc,         \* position of the click handler and its callbacks
    statusMessage,  \* what showStatus showed last
    userLocation,   \* the position of the latest geolocation success
    closestServerDiv, \* whether a list of top servers is displayed
    findClicks      \* clicks on the button so far

selectVars == <<locations, servers, net, handler, pc, query, lat, lon,
                fetchError, locationsWithDistance, topCandidates, latencyTests,
                response, catalogCalls, serverQueries, attempts>>
probeVars == <<ppc, probeHost, sockets, resolved, probeResult>>
repeatVars == <<requests, previous>>
step4Vars == <<memberFetch, probes>>
distanceVars == <<points, calls>>
pingVars == <<lookup, pingHost, pingPc, pingResponse>>
pairVars == <<running, parked, overlapped>>
cardVars == <<cards, clicks>>
listVars == <<serverDataList, testAllButton, runs, pings, pingButtons, latencyResult,
              latest, pingClicks>>
findVars == <<geolocation, findClosestBtn, findPc, statusMessage, userLocation,
              closestServerDiv, findClicks>>
pageVars == <<cardVars, listVars, findVars>>
restVars == <<pingVars, pairVars, pageVars>>
\* everything but the page
serverVars == <<selectVars, probeVars, repeatVars, step4Vars, distanceVars, pingVars, pairVars>>
auxVars == <<repeatVars, step4Vars, distanceVars, restVars>>
vars == <<selectVars, probeVars, auxVars>>

----------------------------------------------------------------------------
(* JavaScript values *)

Null == -9001
Undefined == -9002
NaN == -9003
Pending == -9004
\* a promise that rejected (an await of it throws)
Rejected == -9005

\* `x && y`, `!x`: null, undefined, NaN and 0 are falsy
Truthy(v) == v \notin {Null, Undefined, NaN, 0}

\* `a || b`
OrElse(a, b) == IF Truthy(a) THEN a ELSE b

----------------------------------------------------------------------------
(* Bounds and program constants *)

MaxLocations == 26

K_GEO == 25
K_FINAL == 5
ClientCandidates == 25
ProbeTimeout == 4000

ports == <<443, 80>>

----------------------------------------------------------------------------
(* Sequences *)

Take(s, n) == SubSeq(s, 1, IF n < Len(s) THEN n ELSE Len(s))

\* insert x after every element whose field f is <= x[f]: equal keys keep their order
RECURSIVE InsertStable(_, _, _)
InsertStable(x, s, f) ==
    IF s = <<>> THEN <<x>>
    ELSE IF x[f] < Head(s)[f] THEN <<x>> \o s
         ELSE <<Head(s)>> \o InsertStable(x, Tail(s), f)

\* Array.prototype.sort((a, b) => a.f - b.f): ascending and stable
RECURSIVE SortBy(_, _)
SortBy(s, f) ==
    IF s = <<>> THEN <<>>
    ELSE InsertStable(s[Len(s)], SortBy(SubSeq(s, 1, Len(s) - 1), f), f)

----------------------------------------------------------------------------
(* parseFloat on the query strings *)

DigitChars == <<"0", "1", "2", "3", "4", "5", "6", "7", "8", "9">>
IsDigit(c) == \E d \in 1..10 : DigitChars[d] = c
DigitVal(c) == (CHOOSE d \in 1..10 : DigitChars[d] = c) - 1

RECURSIVE SkipSpaces(_)
SkipSpaces(s) == IF s # <<>> /\ Head(s) = " " THEN SkipSpaces(Tail(s)) ELSE s

\* value of the longest prefix of digits of s, given the value acc read so far
RECURSIVE ReadDigits(_, _)
ReadDigits(s, acc) ==
    IF s # <<>> /\ IsDigit(Head(s)) THEN ReadDigits(Tail(s), 10 * acc + DigitVal(Head(s)))
    ELSE acc

\* parseFloat: leading blanks skipped, optional sign, the longest numeric prefix;
\* NaN when there is none (a missing parameter arrives as the text "undefined")
parseFloat(str) ==
    LET s == SkipSpaces(str)
        neg == s # <<>> /\ Head(s) = "-"
        body == IF s # <<>> /\ Head(s) \in {"-", "+"} THEN Tail(s) ELSE s
    IN  IF body = <<>> \/ ~IsDigit(Head(body)) THEN NaN
        ELSE IF neg THEN 0 - ReadDigits(body, 0) ELSE ReadDigits(body, 0)

isNaN(v) == v = NaN

----------------------------------------------------------------------------
(* haversineDistance on the 60-degree grid *)

\* 4 * sin^2(x / 2) for x a multiple of 60 degrees
Sin2HalfQ(x) ==
    CASE x % 360 = 0 -> 0
      [] x % 360 = 60 -> 1
      [] x % 360 = 120 -> 3
      [] x % 360 = 180 -> 4
      [] x % 360 = 240 -> 3
      [] x % 360 = 300 -> 1

\* 2 * cos(x) for x a multiple of 60 degrees
CosH(x) ==
    CASE x % 360 = 0 -> 2
      [] x % 360 = 60 -> 1
      [] x % 360 = 120 -> -1
      [] x % 360 = 180 -> -2
      [] x % 360 = 240 -> -1
      [] x % 360 = 300 -> 1

\* 6371 * 2 * atan2(sqrt(a), sqrt(1 - a)) for a = k / 16, k = 0..16, in metres
ArcMetres == <<0, 3219652, 4604540, 5706280, 6671696, 7558552, 8397717, 9209080, 10007543,
               10806007, 11617369, 12456535, 13343391, 14308806, 15410547, 16795435, 20015087>>

\* HavTerm16 with the sum of the latitudes in place of their difference
HavTerm16SumLat(lat1, lon1, lat2, lon2) ==
    4 * Sin2HalfQ(lat1 + lat2) + CosH(lat1) * CosH(lat2) * Sin2HalfQ(lon2 - lon1)

\* 16 * a, a the haversine term of the two points
HavTerm16(lat1, lon1, lat2, lon2) ==
    4 * Sin2HalfQ(lat2 - lat1) + CosH(lat1) * CosH(lat2) * Sin2HalfQ(lon2 - lon1)

OnGrid(lat1, lon1, lat2, lon2) ==
    lat1 % 60 = 0 /\ lon1 % 60 = 0 /\ lat2 % 60 = 0 /\ lon2 % 60 = 0

\* 2^53 * (a - 1), with a as the doubles of lines 314-318 give it for the
\* points (lat, lon) and (-lat, lon + 180) or (-lat, lon - 180), lat = 1..16:
\* there a = sin^2(lat) + cos^2(lat), which rounds to 1, below 1 or above 1
AntipodalExcess == <<0, 0, -1, -1, 0, -1, -1, 2, 0, -1, 0, 2, 0, 0, 0, 0>>

\* 1 - a < 0 for the two antipodal points: Math.sqrt(1 - a) is NaN
OneMinusTermNegative(lat1) ==
    AntipodalExcess[IF lat1 < 0 THEN -lat1 ELSE lat1] > 0

\* haversineDistance with cos(lat1) taken twice in place of cos(lat1) * cos(lat2)
haversineDistanceCosLat1(lat1, lon1, lat2, lon2) ==
    IF OnGrid(lat1, lon1, lat2, lon2)
    THEN IF 4 * Sin2HalfQ(lat2 - lat1) + CosH(lat1) * CosH(lat1) * Sin2HalfQ(lon2 - lon1) > 16
         THEN NaN
         ELSE ArcMetres[4 * Sin2HalfQ(lat2 - lat1)
                        + CosH(lat1) * CosH(lat1) * Sin2HalfQ(lon2 - lon1) + 1]
    ELSE IF lat1 = lat2 /\ lon1 = lon2 THEN ArcMetres[1]
         ELSE IF OneMinusTermNegative(lat1) THEN NaN ELSE ArcMetres[17]

\* the distance, kept in metres (the code's float is in kilometres): on the
\* grid from the exact term; off the grid for a point and itself (a = 0) and
\* for a point and its antipode (a = 1 up to rounding, NaN when a > 1)
haversineDistance(lat1, lon1, lat2, lon2) ==
    IF OnGrid(lat1, lon1, lat2, lon2)
    THEN ArcMetres[HavTerm16(lat1, lon1, lat2, lon2) + 1]
    ELSE IF lat1 = lat2 /\ lon1 = lon2 THEN ArcMetres[1]
         ELSE IF OneMinusTermNegative(lat1) THEN NaN ELSE ArcMetres[17]

\* Math.round of a distance: metres to whole kilometres, halves rounded up
RoundKm(m) == (m + 500) \div 1000

----------------------------------------------------------------------------
(* The store and the network a request runs against *)

HostName(city, k) == city * 10 + k
Address(city, k) == city * 10 + k
\* `${city_code}-server`
PlaceholderName(city_code) == 1000 + city_code

\* server?.hostname, server?.ipv4_addr_in of a null server are undefined
NullServer == [hostname |-> Undefined, ipv4_addr_in |-> Undefined]

cNull == [latitude |-> Null, longitude |-> 60]
cEquator == [latitude |-> 0, longitude |-> 60]
cGreenwich == [latitude |-> 60, longitude |-> 0]
cEast == [latitude |-> 60, longitude |-> 60]
cWest == [latitude |-> 60, longitude |-> -60]
cSouth == [latitude |-> -60, longitude |-> -120]
CoordChoices == {cNull, cEquator, cGreenwich, cEast, cWest, cSouth}

\* the coordinates of the catalog repeat one of these patterns
CoordPatterns ==
    {<<c>> : c \in CoordChoices}
    \cup {<<c, d>> : c, d \in CoordChoices}
    \cup {<<cSouth, cEast, cWest>>, <<cSouth, cEquator, cEast>>, <<cNull, cSouth, cEast>>}

\* what a connection attempt meets: the event the socket emits (or the
\* exception connect throws) and, for a connect, the elapsed milliseconds
Connects(ms) == [event |-> "connect", latency |-> ms]
TimesOut == [event |-> "timeout", latency |-> 0]
Errors == [event |-> "error", latency |-> 0]
Throws == [event |-> "throw", latency |-> 0]

sNoIp == [hasIp |-> FALSE, p443 |-> TimesOut, p80 |-> TimesOut]
sDown == [hasIp |-> TRUE, p443 |-> TimesOut, p80 |-> Errors]
sRefused == [hasIp |-> TRUE, p443 |-> Errors, p80 |-> Throws]
sFast(ms) == [hasIp |-> TRUE, p443 |-> Connects(ms), p80 |-> Connects(ms + 5)]
sVia80(ms) == [hasIp |-> TRUE, p443 |-> TimesOut, p80 |-> Connects(ms)]

\* the member servers of a location: the rows, or a failed query (data: null)
pFail == [isNull |-> TRUE, kinds |-> <<>>]
pNone == [isNull |-> FALSE, kinds |-> <<>>]
pDown == [isNull |-> FALSE, kinds |-> <<sDown>>]
pNoIp == [isNull |-> FALSE, kinds |-> <<sNoIp, sRefused>>]
pBest2 == [isNull |-> FALSE, kinds |-> <<sFast(20), sVia80(10)>>]
pZero == [isNull |-> FALSE, kinds |-> <<sDown, sFast(0)>>]
pTen == [isNull |-> FALSE, kinds |-> <<sFast(10)>>]
pTie == [isNull |-> FALSE, kinds |-> <<sFast(20), sFast(20)>>]
pNoIpFast == [isNull |-> FALSE, kinds |-> <<sNoIp, sFast(30)>>]

\* the member servers of the catalog repeat one of these patterns
ProfilePatterns ==
    {<<pNone>>, <<pFail>>, <<pDown>>, <<pDown, pNoIp, pNone, pFail>>,
     <<pTen>>, <<pBest2, pZero>>, <<pTie, pTen, pDown>>,
     <<pNoIpFast, pBest2, pNone, pZero, pTen, pDown, pTie, pFail>>,
     <<pDown, pDown, pNoIp, pTen>>}

Cycle(pattern, i) == pattern[((i - 1) % Len(pattern)) + 1]

\* provider and speed of a location are nullable columns
Provider(i) == IF i % 3 = 2 THEN Null ELSE 31173 + (i % 2)
Speed(i) == IF i % 4 = 1 THEN Null ELSE 10

Locations(n, cp) ==
    [i \in 1..n |-> [city_code |-> i,
                     provider |-> Provider(i),
                     speed |-> Speed(i),
                     latitude |-> Cycle(cp, i).latitude,
                     longitude |-> Cycle(cp, i).longitude]]

Servers(n, pp) ==
    [c \in 1..n |->
        [isNull |-> Cycle(pp, c).isNull,
         rows |-> [k \in 1..Len(Cycle(pp, c).kinds) |->
                     [hostname |-> HostName(c, k),
                      ipv4_addr_in |-> IF Cycle(pp, c).kinds[k].hasIp
                                       THEN Address(c, k) ELSE Null]]]]

\* the network: address -> what an attempt on port 443 and on port 80 meets
Net(n, pp) ==
    [a \in {Address(c, k) : c \in 1..n, k \in 1..2} |->
        LET c == a \div 10
            k == a % 10
        IN  IF k <= Len(Cycle(pp, c).kinds)
            THEN [p443 |-> Cycle(pp, c).kinds[k].p443, p80 |-> Cycle(pp, c).kinds[k].p80]
            ELSE [p443 |-> TimesOut, p80 |-> TimesOut]]

\* GET /api/closest?lat=..&lon=..; a missing parameter reads as "undefined"
Chars60 == <<"6", "0">>
Chars0 == <<"0">>
Chars180 == <<"1", "8", "0">>
CharsWord == <<"n", "o", "r", "t", "h">>
CharsUndefined == <<"u", "n", "d", "e", "f", "i", "n", "e", "d">>
Queries ==
    {[lat |-> Chars60, lon |-> Chars0],          \* 60, 0
     [lat |-> Chars0, lon |-> Chars60],          \* 0, 60
     [lat |-> Chars180, lon |-> Chars0],         \* latitude out of [-90, 90]
     [lat |-> CharsWord, lon |-> Chars0],        \* not a number
     [lat |-> Chars60, lon |-> CharsUndefined],  \* lon missing
     [lat |-> <<>>, lon |-> <<" ", "-">>]}       \* empty, blank

Handlers == {"clientSide", "hybrid"}

NoResponse == [status |-> 0, error |-> "", body |-> <<>>]

SelectIdle ==
    /\ handler = "none"
    /\ pc = "idle"
    /\ query = [lat |-> <<>>, lon |-> <<>>]
    /\ lat = Undefined
    /\ lon = Undefined
    /\ fetchError = FALSE
    /\ locationsWithDistance = <<>>
    /\ topCandidates = <<>>
    /\ latencyTests = <<>>
    /\ response = NoResponse
    /\ catalogCalls = 0
    /\ serverQueries = <<>>
    /\ attempts = {}

ProbeIdle ==
    /\ ppc = "idle"
    /\ probeHost = Undefined
    /\ sockets = <<>>
    /\ resolved = Pending
    /\ probeResult = Pending

\* no request answered yet
NoPrevious ==
    [handler |-> "none", query |-> [lat |-> <<>>, lon |-> <<>>], lat |-> Undefined,
     lon |-> Undefined, fetchError |-> FALSE, response |-> NoResponse]

RepeatIdle ==
    /\ requests = 0
    /\ previous = NoPrevious

Step4Idle ==
    /\ memberFetch = <<>>
    /\ probes = <<>>

DistanceIdle ==
    /\ points = <<>>
    /\ calls = <<>>

NoPingResponse == [http |-> 0, hostname |-> Undefined, latency |-> Undefined, status |-> "none"]

PingIdle ==
    /\ lookup = "none"
    /\ pingHost = Undefined
    /\ pingPc = "idle"
    /\ pingResponse = NoPingResponse

\* the locals of a request that has not arrived
NotArrived ==
    [handler |-> "none", pc |-> "idle", query |-> [lat |-> <<>>, lon |-> <<>>],
     lat |-> Undefined, lon |-> Undefined, fetchError |-> FALSE,
     locationsWithDistance |-> <<>>, topCandidates |-> <<>>, latencyTests |-> <<>>,
     response |-> NoResponse, catalogCalls |-> 0, serverQueries |-> <<>>,
     attempts |-> {}]

PairIdle ==
    /\ running = 1
    /\ parked = NotArrived
    /\ overlapped = FALSE

\* no city card is rendered
CardIdle ==
    /\ cards = <<>>
    /\ clicks = 0

\* no server list is rendered
ListIdle ==
    /\ serverDataList = <<>>
    /\ testAllButton = [disabled |-> FALSE, attached |-> FALSE]
    /\ runs = <<>>
    /\ pings = <<>>
    /\ pingButtons = <<>>
    /\ latencyResult = <<>>
    /\ latest = <<>>
    /\ pingClicks = 0

\* let userLocation = null
NoLocation == [lat |-> Null, lon |-> Null]

\* the button as the page loads it
FindIdle ==
    /\ findClosestBtn = [disabled |-> FALSE]
    /\ findPc = "idle"
    /\ statusMessage = ""
    /\ userLocation = NoLocation
    /\ closestServerDiv = "empty"
    /\ findClicks = 0

PageIdle == CardIdle /\ ListIdle /\ FindIdle /\ geolocation = TRUE

RestIdle == PingIdle /\ PairIdle /\ PageIdle

AuxIdle == RepeatIdle /\ Step4Idle /\ DistanceIdle /\ RestIdle

Init ==
    /\ \E n \in 0..MaxLocations, cp \in CoordPatterns, pp \in ProfilePatterns :
          /\ locations = Locations(n, cp)
          /\ servers = Servers(n, pp)
          /\ net = Net(n, pp)
    /\ SelectIdle
    /\ ProbeIdle
    /\ AuxIdle

----------------------------------------------------------------------------
(* The probe, as the handlers see it: its result and the attempts it makes *)

PortOutcome(address, port) == IF port = 443 THEN net[address].p443 ELSE net[address].p80

\* testTCPLatency: the elapsed time when the socket connects, null otherwise
testTCPLatency(address, port) ==
    IF PortOutcome(address, port).event = "connect"
    THEN PortOutcome(address, port).latency
    ELSE Null

\* the loop of testServerLatency from the i-th port on
RECURSIVE LatencyFrom(_, _)
LatencyFrom(address, i) ==
    IF i > Len(ports) THEN Null
    ELSE IF testTCPLatency(address, ports[i]) # Null
         THEN testTCPLatency(address, ports[i])
         ELSE LatencyFrom(address, i + 1)

testServerLatency(address) == LatencyFrom(address, 1)

\* the connection attempts that loop issues
RECURSIVE AttemptsFrom(_, _)
AttemptsFrom(address, i) ==
    IF i > Len(ports) THEN {}
    ELSE IF testTCPLatency(address, ports[i]) # Null
         THEN {<<address, ports[i]>>}
         ELSE {<<address, ports[i]>>} \cup AttemptsFrom(address, i + 1)

----------------------------------------------------------------------------
(* GET /api/closest *)

\* STEP 2 filter: loc.latitude && loc.longitude
HasCoordinates(loc) == Truthy(loc.latitude) /\ Truthy(loc.longitude)

WithDistance(loc) ==
    [city_code |-> loc.city_code, provider |-> loc.provider, speed |-> loc.speed,
     latitude |-> loc.latitude, longitude |-> loc.longitude,
     geoDistance |-> haversineDistance(lat, lon, loc.latitude, loc.longitude)]

\* STEP 2: filter, map, sort by geoDistance
LocationsWithDistance(fetched) ==
    LET kept == SelectSeq(fetched, HasCoordinates)
    IN  SortBy([i \in 1..Len(kept) |-> WithDistance(kept[i])], "geoDistance")

\* STEP 3: slice(0, 25), in server.js and in the hybrid handler
TopCandidates(sorted) ==
    Take(sorted, IF handler = "clientSide" THEN ClientCandidates ELSE K_GEO)

\* a request arrives; parseFloat; 400 when either parameter is NaN
Request(h, q) ==
    /\ pc = "idle"
    /\ handler' = h
    /\ query' = q
    /\ lat' = parseFloat(q.lat)
    /\ lon' = parseFloat(q.lon)
    /\ IF isNaN(parseFloat(q.lat)) \/ isNaN(parseFloat(q.lon))
       THEN /\ response' = [status |-> 400, error |-> "Invalid latitude or longitude",
                            body |-> <<>>]
            /\ pc' = "done"
       ELSE /\ pc' = "fetchLocations"
            /\ UNCHANGED response
    /\ UNCHANGED <<locations, servers, net, fetchError, locationsWithDistance,
                   topCandidates, latencyTests, catalogCalls, serverQueries,
                   attempts, probeVars, auxVars>>

\* STEP 1-3 with getServerLocationsWithCoordinates returning the rows
FetchLocationsOk ==
    /\ pc = "fetchLocations"
    /\ catalogCalls' = catalogCalls + 1
    /\ fetchError' = FALSE
    /\ locationsWithDistance' = LocationsWithDistance(locations)
    /\ topCandidates' = TopCandidates(locationsWithDistance')
    /\ pc' = "step4"
    /\ UNCHANGED <<locations, servers, net, handler, query, lat, lon, latencyTests,
                   response, serverQueries, attempts, probeVars, auxVars>>

\* STEP 1-3 when the query fails: the error is caught and [] returned
FetchLocationsError ==
    /\ pc = "fetchLocations"
    /\ catalogCalls' = catalogCalls + 1
    /\ fetchError' = TRUE
    /\ locationsWithDistance' = LocationsWithDistance(<<>>)
    /\ topCandidates' = TopCandidates(locationsWithDistance')
    /\ pc' = "step4"
    /\ UNCHANGED <<locations, servers, net, handler, query, lat, lon, latencyTests,
                   response, serverQueries, attempts, probeVars, auxVars>>

\* FirstServer over a store whose answer starts one row further with every
\* request answered
FirstServerRotating(city_code) ==
    IF ~servers[city_code].isNull /\ Len(servers[city_code].rows) > 0
    THEN servers[city_code].rows[(requests % Len(servers[city_code].rows)) + 1]
    ELSE NullServer

\* .limit(1) on the servers of a city: the first row, or null
FirstServer(city_code) ==
    IF ~servers[city_code].isNull /\ Len(servers[city_code].rows) > 0
    THEN servers[city_code].rows[1]
    ELSE NullServer

CityCodes(s) == [i \in 1..Len(s) |-> s[i].city_code]

\* server.js STEP 4 and the response: one representative server per candidate
ClientCandidate(location) ==
    LET server == FirstServer(location.city_code)
    IN  [hostname |-> OrElse(server.hostname, PlaceholderName(location.city_code)),
         city_code |-> location.city_code,
         latitude |-> location.latitude,
         longitude |-> location.longitude,
         ipv4 |-> server.ipv4_addr_in,
         provider |-> location.provider,
         speed |-> location.speed,
         distance |-> RoundKm(location.geoDistance),
         tcpLatency |-> Null]

ClientSideRespond ==
    /\ pc = "step4"
    /\ handler = "clientSide"
    /\ serverQueries' = serverQueries \o CityCodes(topCandidates)
    /\ response' = [status |-> 200, error |-> "",
                    body |-> [i \in 1..Len(topCandidates) |->
                                ClientCandidate(topCandidates[i])]]
    /\ pc' = "done"
    /\ UNCHANGED <<locations, servers, net, handler, query, lat, lon, fetchError,
                   locationsWithDistance, topCandidates,
                   latencyTests, catalogCalls, attempts, probeVars, auxVars>>

\* the test of a member server of a location
ServerTest(server) ==
    [server |-> server,
     latency |-> IF ~Truthy(server.ipv4_addr_in) THEN Null
                 ELSE testServerLatency(server.ipv4_addr_in)]

HasLatency(t) == t.latency # Null

\* LatencyTest without the sort of validTests: the first member with a latency
LatencyTestFirstValid(location) ==
    LET rows == servers[location.city_code].rows
        serverTests == [k \in 1..Len(rows) |-> ServerTest(rows[k])]
        validTests == SelectSeq(serverTests, HasLatency)
        base == [city_code |-> location.city_code, provider |-> location.provider,
                 speed |-> location.speed, latitude |-> location.latitude,
                 longitude |-> location.longitude, geoDistance |-> location.geoDistance]
    IN  IF servers[location.city_code].isNull \/ Len(rows) = 0
        THEN base @@ [server |-> NullServer, tcpLatency |-> Null]
        ELSE IF validTests = <<>>
             THEN base @@ [server |-> rows[1], tcpLatency |-> Null]
             ELSE base @@ [server |-> validTests[1].server,
                           tcpLatency |-> validTests[1].latency]

\* hybrid STEP 4 for one location: probe every server, keep the fastest
LatencyTest(location) ==
    LET rows == servers[location.city_code].rows
        serverTests == [k \in 1..Len(rows) |-> ServerTest(rows[k])]
        validTests == SortBy(SelectSeq(serverTests, HasLatency), "latency")
        base == [city_code |-> location.city_code, provider |-> location.provider,
                 speed |-> location.speed, latitude |-> location.latitude,
                 longitude |-> location.longitude, geoDistance |-> location.geoDistance]
    IN  IF servers[location.city_code].isNull \/ Len(rows) = 0
        THEN base @@ [server |-> NullServer, tcpLatency |-> Null]
        ELSE IF validTests = <<>>
             THEN base @@ [server |-> rows[1], tcpLatency |-> Null]
             ELSE base @@ [server |-> validTests[1].server,
                           tcpLatency |-> validTests[1].latency]

\* the connection attempts of STEP 4 for one location
LocationAttempts(location) ==
    IF servers[location.city_code].isNull THEN {}
    ELSE UNION {IF Truthy(servers[location.city_code].rows[k].ipv4_addr_in)
                THEN AttemptsFrom(servers[location.city_code].rows[k].ipv4_addr_in, 1)
                ELSE {} : k \in 1..Len(servers[location.city_code].rows)}

HasMembers(location) ==
    ~servers[location.city_code].isNull /\ Len(servers[location.city_code].rows) > 0

\* LatencyTests with the locations that have no member server left out
LatencyTestsOfMembers(candidates) ==
    [i \in 1..Len(SelectSeq(candidates, HasMembers)) |->
        LatencyTest(SelectSeq(candidates, HasMembers)[i])]

\* hybrid STEP 4: Promise.all over topCandidates.map, one result per location
LatencyTests(candidates) ==
    [i \in 1..Len(candidates) |-> LatencyTest(candidates[i])]

\* HybridLatencyTests without the guard `!servers ||`: servers.map on the
\* null of a failed query throws, and the catch of the handler answers 500
HybridLatencyTestsUnguarded ==
    /\ pc = "step4"
    /\ handler = "hybrid"
    /\ serverQueries' = serverQueries \o CityCodes(topCandidates)
    /\ attempts' = attempts \cup UNION {LocationAttempts(topCandidates[i]) :
                                          i \in 1..Len(topCandidates)}
    /\ IF \E i \in 1..Len(topCandidates) : servers[topCandidates[i].city_code].isNull
       THEN /\ response' = [status |-> 500, error |-> "Failed to find closest server",
                            body |-> <<>>]
            /\ pc' = "done"
            /\ UNCHANGED latencyTests
       ELSE /\ latencyTests' = LatencyTests(topCandidates)
            /\ pc' = "step5"
            /\ UNCHANGED response
    /\ UNCHANGED <<locations, servers, net, handler, query, lat, lon, fetchError,
                   locationsWithDistance, topCandidates, catalogCalls,
                   probeVars, auxVars>>

HybridLatencyTests ==
    /\ pc = "step4"
    /\ handler = "hybrid"
    /\ serverQueries' = serverQueries \o CityCodes(topCandidates)
    /\ latencyTests' = LatencyTests(topCandidates)
    /\ attempts' = attempts \cup UNION {LocationAttempts(topCandidates[i]) :
                                          i \in 1..Len(topCandidates)}
    /\ pc' = "step5"
    /\ UNCHANGED <<locations, servers, net, handler, query, lat, lon, fetchError,
                   locationsWithDistance, topCandidates,
                   response, catalogCalls, probeVars, auxVars>>

\* Measured taking a location with a chosen server as measured
MeasuredOrServed(r) == r.tcpLatency # Null \/ r.server # NullServer

Measured(r) == r.tcpLatency # Null

\* the response format of the hybrid handler
HybridEntry(server) ==
    [hostname |-> OrElse(server.server.hostname, PlaceholderName(server.city_code)),
     city_code |-> server.city_code,
     latitude |-> server.latitude,
     longitude |-> server.longitude,
     ipv4 |-> server.server.ipv4_addr_in,
     provider |-> server.provider,
     speed |-> server.speed,
     distance |-> RoundKm(server.geoDistance),
     tcpLatency |-> server.tcpLatency]

\* HybridRespondMeasured without the sort of validResults
HybridRespondMeasuredUnsorted ==
    /\ pc = "step5"
    /\ SelectSeq(latencyTests, Measured) # <<>>
    /\ LET topServers == Take(SelectSeq(latencyTests, Measured), K_FINAL)
       IN  response' = [status |-> 200, error |-> "",
                        body |-> [i \in 1..Len(topServers) |-> HybridEntry(topServers[i])]]
    /\ pc' = "done"
    /\ UNCHANGED <<locations, servers, net, handler, query, lat, lon, fetchError,
                   locationsWithDistance, topCandidates,
                   latencyTests, catalogCalls, serverQueries, attempts, probeVars, auxVars>>

\* hybrid STEP 5 when some location has a latency: sort by it, slice(0, 5)
HybridRespondMeasured ==
    /\ pc = "step5"
    /\ SelectSeq(latencyTests, Measured) # <<>>
    /\ LET topServers == Take(SortBy(SelectSeq(latencyTests, Measured), "tcpLatency"), K_FINAL)
       IN  response' = [status |-> 200, error |-> "",
                        body |-> [i \in 1..Len(topServers) |-> HybridEntry(topServers[i])]]
    /\ pc' = "done"
    /\ UNCHANGED <<locations, servers, net, handler, query, lat, lon, fetchError,
                   locationsWithDistance, topCandidates,
                   latencyTests, catalogCalls, serverQueries, attempts, probeVars, auxVars>>

\* FallbackServer with the last member server of the location, not the first
FallbackServerLast(location) ==
    [city_code |-> location.city_code, provider |-> location.provider,
     speed |-> location.speed, latitude |-> location.latitude,
     longitude |-> location.longitude, geoDistance |-> location.geoDistance,
     server |-> IF HasMembers(location)
                THEN servers[location.city_code].rows[Len(servers[location.city_code].rows)]
                ELSE NullServer,
     tcpLatency |-> Undefined]

\* the fallback annotates a shortlist entry; the entry has no tcpLatency property
FallbackServer(location) ==
    [city_code |-> location.city_code, provider |-> location.provider,
     speed |-> location.speed, latitude |-> location.latitude,
     longitude |-> location.longitude, geoDistance |-> location.geoDistance,
     server |-> FirstServer(location.city_code), tcpLatency |-> Undefined]

\* HybridRespondFallback without the slice(0, 5): the whole shortlist
HybridRespondFallbackAll ==
    /\ pc = "step5"
    /\ SelectSeq(latencyTests, Measured) = <<>>
    /\ LET topServers == topCandidates
       IN  /\ serverQueries' = serverQueries \o CityCodes(topServers)
           /\ response' = [status |-> 200, error |-> "",
                           body |-> [i \in 1..Len(topServers) |->
                                       HybridEntry(FallbackServer(topServers[i]))]]
    /\ pc' = "done"
    /\ UNCHANGED <<locations, servers, net, handler, query, lat, lon, fetchError,
                   locationsWithDistance, topCandidates,
                   latencyTests, catalogCalls, attempts, probeVars, auxVars>>

\* hybrid STEP 5 when no location has a latency: the 5 closest by distance
HybridRespondFallback ==
    /\ pc = "step5"
    /\ SelectSeq(latencyTests, Measured) = <<>>
    /\ LET topServers == Take(topCandidates, K_FINAL)
       IN  /\ serverQueries' = serverQueries \o CityCodes(topServers)
           /\ response' = [status |-> 200, error |-> "",
                           body |-> [i \in 1..Len(topServers) |->
                                       HybridEntry(FallbackServer(topServers[i]))]]
    /\ pc' = "done"
    /\ UNCHANGED <<locations, servers, net, handler, query, lat, lon, fetchError,
                   locationsWithDistance, topCandidates,
                   latencyTests, catalogCalls, attempts, probeVars, auxVars>>

Next ==
    \/ \E h \in Handlers, q \in Queries : Request(h, q)
    \/ FetchLocationsOk
    \/ FetchLocationsError
    \/ ClientSideRespond
    \/ HybridLatencyTests
    \/ HybridRespondMeasured
    \/ HybridRespondFallback

Spec == Init /\ [][Next]_vars

----------------------------------------------------------------------------
(* The same request sent again to the same server *)

MaxRepeatLocations == 3
MaxRepeats == 1

InitRepeat ==
    /\ \E n \in 0..MaxRepeatLocations, cp \in CoordPatterns, pp \in ProfilePatterns :
          /\ locations = Locations(n, cp)
          /\ servers = Servers(n, pp)
          /\ net = Net(n, pp)
    /\ SelectIdle
    /\ ProbeIdle
    /\ AuxIdle

FirstRequest(h, q) ==
    /\ requests = 0
    /\ Request(h, q)

\* the client sends the request it sent before
RequestAgain ==
    /\ requests > 0
    /\ Request(previous.handler, previous.query)

\* the response has been sent and the handler has returned: its locals are
\* gone, the store and the network are as they were
RequestEnds ==
    /\ pc = "done"
    /\ requests < MaxRepeats
    /\ requests' = requests + 1
    /\ previous' = [handler |-> handler, query |-> query, lat |-> lat, lon |-> lon,
                    fetchError |-> fetchError, response |-> response]
    /\ handler' = "none"
    /\ pc' = "idle"
    /\ query' = [lat |-> <<>>, lon |-> <<>>]
    /\ lat' = Undefined
    /\ lon' = Undefined
    /\ fetchError' = FALSE
    /\ locationsWithDistance' = <<>>
    /\ topCandidates' = <<>>
    /\ latencyTests' = <<>>
    /\ response' = NoResponse
    /\ catalogCalls' = 0
    /\ serverQueries' = <<>>
    /\ attempts' = {}
    /\ UNCHANGED <<locations, servers, net, probeVars, step4Vars, distanceVars, restVars>>

NextRepeat ==
    \/ \E h \in Handlers, q \in Queries : FirstRequest(h, q)
    \/ RequestAgain
    \/ FetchLocationsOk
    \/ FetchLocationsError
    \/ ClientSideRespond
    \/ HybridLatencyTests
    \/ HybridRespondMeasured
    \/ HybridRespondFallback
    \/ RequestEnds

SpecRepeat == InitRepeat /\ [][NextRepeat]_vars

----------------------------------------------------------------------------
(* Hybrid STEP 4 promise by promise: the servers queries and the probes *)

MaxConcurrentLocations == 2
\* the most member servers a location of the catalogs above has
MaxMembers == 2

InitConcurrent ==
    /\ \E n \in 0..MaxConcurrentLocations, cp \in CoordPatterns, pp \in ProfilePatterns :
          /\ locations = Locations(n, cp)
          /\ servers = Servers(n, pp)
          /\ net = Net(n, pp)
    /\ SelectIdle
    /\ ProbeIdle
    /\ AuxIdle

\* topCandidates.map(async (location) => ...) runs every callback up to its
\* first await: the servers query of every shortlisted location is issued
Step4Map ==
    /\ pc = "step4"
    /\ handler = "hybrid"
    /\ memberFetch' = [i \in 1..Len(topCandidates) |-> "issued"]
    /\ probes' = [i \in 1..Len(topCandidates) |-> <<>>]
    /\ serverQueries' = serverQueries \o CityCodes(topCandidates)
    /\ pc' = "awaitTests"
    /\ UNCHANGED <<locations, servers, net, handler, query, lat, lon, fetchError,
                   locationsWithDistance, topCandidates, latencyTests, response,
                   catalogCalls, attempts, probeVars, repeatVars, distanceVars, restVars>>

\* StartProbes with the members probed one after the other: only the probe
\* of the first member is started
StartProbesFirstOnly(rows) ==
    [k \in 1..Len(rows) |->
        IF ~Truthy(rows[k].ipv4_addr_in) THEN "done"
        ELSE IF k = 1 THEN "p443" ELSE "none"]

\* servers.map(async (server) => ...): a member without address is done at
\* once, every other member has testTCPLatency called on the first port
StartProbes(rows) ==
    [k \in 1..Len(rows) |-> IF Truthy(rows[k].ipv4_addr_in) THEN "p443" ELSE "done"]

Awaited(state) == state \in {"p443", "p80"}

PortOf(state) == IF state = "p443" THEN ports[1] ELSE ports[2]

\* the servers query of the i-th shortlisted location returns
MemberFetchReturns(i) ==
    /\ pc = "awaitTests"
    /\ i \in 1..Len(memberFetch)
    /\ memberFetch[i] = "issued"
    /\ memberFetch' = [memberFetch EXCEPT ![i] = "returned"]
    /\ LET rows == IF servers[topCandidates[i].city_code].isNull THEN <<>>
                   ELSE servers[topCandidates[i].city_code].rows
       IN  /\ probes' = [probes EXCEPT ![i] = StartProbes(rows)]
           /\ attempts' = attempts \cup
                  {<<rows[k].ipv4_addr_in, PortOf(probes'[i][k])>> :
                      k \in {j \in 1..Len(rows) : Awaited(probes'[i][j])}}
    /\ UNCHANGED <<locations, servers, net, handler, pc, query, lat, lon, fetchError,
                   locationsWithDistance, topCandidates, latencyTests, response,
                   catalogCalls, serverQueries, probeVars, repeatVars, distanceVars, restVars>>

\* AttemptEnds with a socket whose timeout never fires
AttemptEndsNoTimeout(i, k) ==
    LET address == servers[topCandidates[i].city_code].rows[k].ipv4_addr_in
    IN  /\ pc = "awaitTests"
        /\ i \in 1..Len(probes)
        /\ k \in 1..Len(probes[i])
        /\ Awaited(probes[i][k])
        /\ PortOutcome(address, PortOf(probes[i][k])).event # "timeout"
        /\ IF testTCPLatency(address, PortOf(probes[i][k])) = Null /\ probes[i][k] = "p443"
           THEN /\ probes' = [probes EXCEPT ![i][k] = "p80"]
                /\ attempts' = attempts \cup {<<address, ports[2]>>}
           ELSE /\ probes' = [probes EXCEPT ![i][k] = "done"]
                /\ UNCHANGED attempts
        /\ UNCHANGED <<locations, servers, net, handler, pc, query, lat, lon, fetchError,
                       locationsWithDistance, topCandidates, latencyTests, response,
                       catalogCalls, serverQueries, memberFetch, probeVars, repeatVars,
                       distanceVars, restVars>>

\* the attempt a probe awaits ends (connect, timeout, error or an exception
\* of connect): the probe returns, or goes on to the next port
AttemptEnds(i, k) ==
    LET address == servers[topCandidates[i].city_code].rows[k].ipv4_addr_in
    IN  /\ pc = "awaitTests"
        /\ i \in 1..Len(probes)
        /\ k \in 1..Len(probes[i])
        /\ Awaited(probes[i][k])
        /\ IF testTCPLatency(address, PortOf(probes[i][k])) = Null /\ probes[i][k] = "p443"
           THEN /\ probes' = [probes EXCEPT ![i][k] = "p80"]
                /\ attempts' = attempts \cup {<<address, ports[2]>>}
           ELSE /\ probes' = [probes EXCEPT ![i][k] = "done"]
                /\ UNCHANGED attempts
        /\ UNCHANGED <<locations, servers, net, handler, pc, query, lat, lon, fetchError,
                       locationsWithDistance, topCandidates, latencyTests, response,
                       catalogCalls, serverQueries, memberFetch, probeVars, repeatVars,
                       distanceVars, restVars>>

\* both Promise.all have every promise fulfilled: latencyTests is assigned
Step4Join ==
    /\ pc = "awaitTests"
    /\ \A i \in 1..Len(memberFetch) :
          /\ memberFetch[i] = "returned"
          /\ \A k \in 1..Len(probes[i]) : probes[i][k] = "done"
    /\ latencyTests' = LatencyTests(topCandidates)
    /\ pc' = "step5"
    /\ UNCHANGED <<locations, servers, net, handler, query, lat, lon, fetchError,
                   locationsWithDistance, topCandidates, response, catalogCalls,
                   serverQueries, attempts, probeVars, auxVars>>

\* the steps of a request once it has arrived
Handling ==
    \/ FetchLocationsOk
    \/ FetchLocationsError
    \/ ClientSideRespond
    \/ Step4Map
    \/ \E i \in 1..K_GEO : MemberFetchReturns(i)
    \/ \E i \in 1..K_GEO, k \in 1..MaxMembers : AttemptEnds(i, k)
    \/ Step4Join
    \/ HybridRespondMeasured
    \/ HybridRespondFallback

NextConcurrent ==
    \/ \E h \in Handlers, q \in Queries : Request(h, q)
    \/ Handling

SpecConcurrent == InitConcurrent /\ [][NextConcurrent]_vars

\* every query returns and every socket ends in connect, error or timeout
FairSpecConcurrent == SpecConcurrent /\ WF_vars(Handling)

----------------------------------------------------------------------------
(* Calls of haversineDistance on valid coordinates *)

GridLatitudes == {-60, 0, 60}
GridLongitudes == {-180, -120, -60, 0, 60, 120, 180}
\* the latitudes off the grid go up to this many degrees
MaxAntipodeLat == 12

GridPoints == {[lat |-> la, lon |-> lo] : la \in GridLatitudes, lo \in GridLongitudes}

\* points of low latitude on the meridians 0 and 180
FinePoints ==
    {[lat |-> la, lon |-> lo] : la \in ((-MaxAntipodeLat)..MaxAntipodeLat) \ {0},
                               lo \in {0, 180}}

Antipode(p) == [lat |-> -p.lat, lon |-> IF p.lon = 0 THEN 180 ELSE 0]

InitDistance ==
    /\ points \in (GridPoints \X GridPoints)
                  \cup {<<p, p>> : p \in FinePoints}
                  \cup {<<p, Antipode(p)>> : p \in FinePoints}
    /\ calls = <<>>
    /\ locations = <<>>
    /\ servers = <<>>
    /\ net = <<>>
    /\ SelectIdle
    /\ ProbeIdle
    /\ RepeatIdle
    /\ Step4Idle
    /\ RestIdle

\* haversineDistance(p.lat, p.lon, q.lat, q.lon) is called and returns
CallHaversine(p, q) ==
    /\ \A i \in 1..Len(calls) : <<calls[i].lat1, calls[i].lon1>> # <<p.lat, p.lon>>
                                  \/ <<calls[i].lat2, calls[i].lon2>> # <<q.lat, q.lon>>
    /\ calls' = Append(calls, [lat1 |-> p.lat, lon1 |-> p.lon,
                               lat2 |-> q.lat, lon2 |-> q.lon,
                               distance |-> haversineDistance(p.lat, p.lon, q.lat, q.lon)])
    /\ UNCHANGED <<points, selectVars, probeVars, repeatVars, step4Vars, restVars>>

NextDistance ==
    \/ CallHaversine(points[1], points[2])
    \/ CallHaversine(points[2], points[1])

SpecDistance == InitDistance /\ [][NextDistance]_vars

----------------------------------------------------------------------------
(* One probe at socket granularity: testServerLatency and testTCPLatency *)

\* cleanup: socket.destroy() on the socket of the latest call
cleanup(ss) == [ss EXCEPT ![Len(ss)].state = "destroyed"]

\* CallTestTCPLatency without the try/catch around connect: the exception
\* leaves the executor, the promise rejects and the socket is left as it is
CallTestTCPLatencyUncaught(port, timeout) ==
    LET created == Append(sockets, [port |-> port, timeout |-> timeout,
                                    state |-> "connecting", ended |-> "none"])
    IN  IF PortOutcome(probeHost', port).event = "throw"
        THEN /\ sockets' = [created EXCEPT ![Len(created)].ended = "throw"]
             /\ resolved' = Rejected
        ELSE /\ sockets' = created
             /\ resolved' = Pending

\* testTCPLatency up to the end of its promise executor: a socket is created,
\* its timeout set, and connect is called; an exception of connect is caught
CallTestTCPLatency(port, timeout) ==
    LET created == Append(sockets, [port |-> port, timeout |-> timeout,
                                    state |-> "connecting", ended |-> "none"])
    IN  IF PortOutcome(probeHost', port).event = "throw"
        THEN /\ sockets' = [cleanup(created) EXCEPT ![Len(created)].ended = "throw"]
             /\ resolved' = Null
        ELSE /\ sockets' = created
             /\ resolved' = Pending

Connecting ==
    /\ sockets # <<>>
    /\ sockets[Len(sockets)].state = "connecting"

\* testServerLatency(hostname) is called and runs to its first await
ProbeCall(hostname) ==
    /\ ppc = "idle"
    /\ probeHost' = hostname
    /\ CallTestTCPLatency(ports[1], ProbeTimeout)
    /\ ppc' = "await"
    /\ UNCHANGED <<probeResult, selectVars, auxVars>>

\* socket.on('connect'): latency, cleanup, resolve(latency)
OnConnect ==
    /\ Connecting
    /\ PortOutcome(probeHost, sockets[Len(sockets)].port).event = "connect"
    /\ sockets' = [cleanup(sockets) EXCEPT ![Len(sockets)].ended = "connect"]
    /\ resolved' = PortOutcome(probeHost, sockets[Len(sockets)].port).latency
    /\ UNCHANGED <<ppc, probeHost, probeResult, selectVars, auxVars>>

\* OnTimeout without the cleanup: resolve(null) with the socket left open
OnTimeoutNoCleanup ==
    /\ Connecting
    /\ PortOutcome(probeHost, sockets[Len(sockets)].port).event = "timeout"
    /\ sockets' = [sockets EXCEPT ![Len(sockets)].ended = "timeout"]
    /\ resolved' = Null
    /\ UNCHANGED <<ppc, probeHost, probeResult, selectVars, auxVars>>

\* socket.on('timeout'): cleanup, resolve(null)
OnTimeout ==
    /\ Connecting
    /\ PortOutcome(probeHost, sockets[Len(sockets)].port).event = "timeout"
    /\ sockets' = [cleanup(sockets) EXCEPT ![Len(sockets)].ended = "timeout"]
    /\ resolved' = Null
    /\ UNCHANGED <<ppc, probeHost, probeResult, selectVars, auxVars>>

\* socket.on('error'): cleanup, resolve(null)
OnError ==
    /\ Connecting
    /\ PortOutcome(probeHost, sockets[Len(sockets)].port).event = "error"
    /\ sockets' = [cleanup(sockets) EXCEPT ![Len(sockets)].ended = "error"]
    /\ resolved' = Null
    /\ UNCHANGED <<ppc, probeHost, probeResult, selectVars, auxVars>>

\* GotLatency written as `if (latency)`: a latency of 0 counts as none
GotLatencyTruthy(latency) == Truthy(latency)

\* the test of the loop body: latency !== null
GotLatency(latency) == latency # Null

\* the await in the loop of testServerLatency returns with a latency: return it
ProbeReturnLatency ==
    /\ ppc = "await"
    /\ resolved # Pending
    /\ GotLatency(resolved)
    /\ probeResult' = resolved
    /\ ppc' = "done"
    /\ UNCHANGED <<probeHost, sockets, resolved, selectVars, auxVars>>

\* the await returns null and a port is left: the next iteration calls testTCPLatency
ProbeNextPort ==
    /\ ppc = "await"
    /\ resolved # Pending
    /\ ~GotLatency(resolved)
    /\ Len(sockets) < Len(ports)
    /\ probeHost' = probeHost
    /\ CallTestTCPLatency(ports[Len(sockets) + 1], ProbeTimeout)
    /\ UNCHANGED <<ppc, probeResult, selectVars, auxVars>>

\* the await returns null for the last port: return null
ProbeReturnNull ==
    /\ ppc = "await"
    /\ resolved # Pending
    /\ ~GotLatency(resolved)
    /\ Len(sockets) >= Len(ports)
    /\ probeResult' = Null
    /\ ppc' = "done"
    /\ UNCHANGED <<probeHost, sockets, resolved, selectVars, auxVars>>

ProbeLatencies == {0, 1, 40, ProbeTimeout}
Outcomes == {Connects(ms) : ms \in ProbeLatencies} \cup {TimesOut, Errors, Throws}
ProbeHosts == {Address(1, 1), Address(1, 2)}

InitProbe ==
    /\ locations = <<>>
    /\ servers = <<>>
    /\ \E o1, o2, o3 \in Outcomes :
          net = [a \in ProbeHosts |->
                    IF a = Address(1, 1) THEN [p443 |-> o1, p80 |-> o2]
                    ELSE [p443 |-> o2, p80 |-> o3]]
    /\ SelectIdle
    /\ ProbeIdle
    /\ AuxIdle

NextProbe ==
    \/ \E hostname \in ProbeHosts : ProbeCall(hostname)
    \/ OnConnect
    \/ OnTimeout
    \/ OnError
    \/ ProbeReturnLatency
    \/ ProbeNextPort
    \/ ProbeReturnNull

SpecProbe == InitProbe /\ [][NextProbe]_vars

----------------------------------------------------------------------------
(* Two /api/closest requests in one process: the handler of one request runs *)
(* until an await, where the event loop may continue the other request.     *)
(* Everything the handler declares is local to its call.                    *)

MaxPairLocations == 2

\* the locals of the request the request variables hold
Locals ==
    [handler |-> handler, pc |-> pc, query |-> query, lat |-> lat, lon |-> lon,
     fetchError |-> fetchError, locationsWithDistance |-> locationsWithDistance,
     topCandidates |-> topCandidates, latencyTests |-> latencyTests,
     response |-> response, catalogCalls |-> catalogCalls,
     serverQueries |-> serverQueries, attempts |-> attempts]

InFlight(position) == position \notin {"idle", "done"}

\* Switch with latencyTests declared outside the handler: one array for
\* every request
SwitchSharingTests ==
    /\ handler # "none"
    /\ parked' = Locals
    /\ handler' = parked.handler
    /\ pc' = parked.pc
    /\ query' = parked.query
    /\ lat' = parked.lat
    /\ lon' = parked.lon
    /\ fetchError' = parked.fetchError
    /\ locationsWithDistance' = parked.locationsWithDistance
    /\ topCandidates' = parked.topCandidates
    /\ latencyTests' = latencyTests
    /\ response' = parked.response
    /\ catalogCalls' = parked.catalogCalls
    /\ serverQueries' = parked.serverQueries
    /\ attempts' = parked.attempts
    /\ running' = IF running = 1 THEN 2 ELSE 1
    /\ overlapped' = (overlapped \/ (InFlight(pc) /\ InFlight(parked.pc)))
    /\ UNCHANGED <<locations, servers, net, probeVars, repeatVars, step4Vars,
                   distanceVars, pingVars, pageVars>>

\* the running request is at an await (or has not arrived, or is answered)
\* and the event loop turns to the other request, which finds its locals
\* as it left them
Switch ==
    /\ handler # "none"
    /\ parked' = Locals
    /\ handler' = parked.handler
    /\ pc' = parked.pc
    /\ query' = parked.query
    /\ lat' = parked.lat
    /\ lon' = parked.lon
    /\ fetchError' = parked.fetchError
    /\ locationsWithDistance' = parked.locationsWithDistance
    /\ topCandidates' = parked.topCandidates
    /\ latencyTests' = parked.latencyTests
    /\ response' = parked.response
    /\ catalogCalls' = parked.catalogCalls
    /\ serverQueries' = parked.serverQueries
    /\ attempts' = parked.attempts
    /\ running' = IF running = 1 THEN 2 ELSE 1
    /\ overlapped' = (overlapped \/ (InFlight(pc) /\ InFlight(parked.pc)))
    /\ UNCHANGED <<locations, servers, net, probeVars, repeatVars, step4Vars,
                   distanceVars, pingVars, pageVars>>

\* a request arrives at the process: one process runs one version of the handler
PairRequest(h, q) ==
    /\ parked.handler \in {"none", h}
    /\ Request(h, q)

PairCoordPatterns ==
    {<<c>> : c \in CoordChoices} \cup {cp \in CoordPatterns : Len(cp) > 2}

PairQueries == {q \in Queries : q.lat \in {Chars60, Chars0, CharsWord}}

InitPair ==
    /\ \E n \in 0..MaxPairLocations, cp \in PairCoordPatterns, pp \in ProfilePatterns :
          /\ locations = Locations(n, cp)
          /\ servers = Servers(n, pp)
          /\ net = Net(n, pp)
    /\ SelectIdle
    /\ ProbeIdle
    /\ AuxIdle

NextPair ==
    \/ \E h \in Handlers, q \in PairQueries : PairRequest(h, q)
    \/ FetchLocationsOk
    \/ FetchLocationsError
    \/ ClientSideRespond
    \/ HybridLatencyTests
    \/ HybridRespondMeasured
    \/ HybridRespondFallback
    \/ Switch

SpecPair == InitPair /\ [][NextPair]_vars

----------------------------------------------------------------------------
(* GET /api/ping/:hostname *)

RECURSIVE RowsUpTo(_)
\* the rows of table servers, city by city
RowsUpTo(c) == IF c = 0 THEN <<>> ELSE RowsUpTo(c - 1) \o servers[c].rows

\* .eq('hostname', hostname).limit(1)
HostnameRows(hostname) ==
    LET IsHost(row) == row.hostname = hostname
    IN  Take(SelectSeq(RowsUpTo(Len(servers)), IsHost), 1)

\* servers && servers.length > 0: data is null when the query fails
ServerFound == lookup # "fails" /\ Len(HostnameRows(pingHost)) > 0

\* servers[0], read only when a server was found
PingServer == HostnameRows(pingHost)[1]

\* !server || !server.ipv4_addr_in
NoServerToProbe == IF ServerFound THEN ~Truthy(PingServer.ipv4_addr_in) ELSE TRUE

\* res.json(...): the body is sent as JSON with HTTP status 200
PingJson(latency, status) ==
    [http |-> 200, hostname |-> pingHost, latency |-> latency, status |-> status]

\* the request arrives and the handler awaits the lookup
PingRequest(hostname, l) ==
    /\ pingPc = "idle"
    /\ pingHost' = hostname
    /\ lookup' = l
    /\ pingPc' = "lookup"
    /\ UNCHANGED <<pingResponse, pairVars, pageVars, selectVars, probeVars, repeatVars,
                   step4Vars, distanceVars>>

\* PingLookupThrows without the try/catch: Express answers 500
PingLookupThrowsUncaught ==
    /\ pingPc = "lookup"
    /\ lookup = "throws"
    /\ pingResponse' = [PingJson(Undefined, "none") EXCEPT !.http = 500]
    /\ pingPc' = "done"
    /\ UNCHANGED <<lookup, pingHost, pairVars, pageVars, selectVars, probeVars,
                   repeatVars, step4Vars, distanceVars>>

\* the lookup throws: the catch block answers
PingLookupThrows ==
    /\ pingPc = "lookup"
    /\ lookup = "throws"
    /\ pingResponse' = PingJson(Null, "timeout")
    /\ pingPc' = "done"
    /\ UNCHANGED <<lookup, pingHost, pairVars, pageVars, selectVars, probeVars,
                   repeatVars, step4Vars, distanceVars>>

\* the lookup returns no server with an address: answer without a probe
PingNoServer ==
    /\ pingPc = "lookup"
    /\ lookup # "throws"
    /\ NoServerToProbe
    /\ pingResponse' = PingJson(Null, "error")
    /\ pingPc' = "done"
    /\ UNCHANGED <<lookup, pingHost, pairVars, pageVars, selectVars, probeVars,
                   repeatVars, step4Vars, distanceVars>>

\* the lookup returns a server with an address: testServerLatency is called
PingProbe ==
    /\ pingPc = "lookup"
    /\ lookup # "throws"
    /\ ~NoServerToProbe
    /\ ProbeCall(PingServer.ipv4_addr_in)

\* testServerLatency returned a latency: Math.round of a whole number of
\* milliseconds (a difference of two Date.now()) is that number
PingSuccess ==
    /\ pingPc = "lookup"
    /\ ppc = "done"
    /\ probeResult # Null
    /\ pingResponse' = PingJson(probeResult, "success")
    /\ pingPc' = "done"
    /\ UNCHANGED <<lookup, pingHost, pairVars, pageVars, selectVars, probeVars,
                   repeatVars, step4Vars, distanceVars>>

\* testServerLatency returned null
PingTimeout ==
    /\ pingPc = "lookup"
    /\ ppc = "done"
    /\ probeResult = Null
    /\ pingResponse' = PingJson(Null, "timeout")
    /\ pingPc' = "done"
    /\ UNCHANGED <<lookup, pingHost, pairVars, pageVars, selectVars, probeVars,
                   repeatVars, step4Vars, distanceVars>>

PingProfiles == {pNone, pDown, pNoIp, pBest2, pZero, pNoIpFast}
PingHostnames == {HostName(1, 1), HostName(1, 2), HostName(1, 3)}
Lookups == {"returns", "fails", "throws"}

InitPing ==
    /\ locations = <<>>
    /\ \E p \in PingProfiles :
          /\ servers = Servers(1, <<p>>)
          /\ net = Net(1, <<p>>)
    /\ SelectIdle
    /\ ProbeIdle
    /\ AuxIdle

NextPing ==
    \/ \E hostname \in PingHostnames, l \in Lookups : PingRequest(hostname, l)
    \/ PingLookupThrows
    \/ PingNoServer
    \/ PingProbe
    \/ OnConnect
    \/ OnTimeout
    \/ OnError
    \/ ProbeReturnLatency
    \/ ProbeNextPort
    \/ ProbeReturnNull
    \/ PingSuccess
    \/ PingTimeout

SpecPing == InitPing /\ [][NextPing]_vars

----------------------------------------------------------------------------
(* The page: city cards (renderCities) and the loading of their server lists *)

MaxCards == 2
MaxClicks == 4

\* a card as renderCities builds it: list container hidden and empty,
\* serversLoaded false
NewCard ==
    [display |-> "none", serversLoaded |-> FALSE, loadCalls |-> 0, loading |-> 0,
     container |-> "empty"]

\* what the fetch of /api/servers/:city/:country inside loadCityServers gives
LoadOutcomes == {"servers", "none", "throws"}

\* what loadCityServers leaves in the container when its fetch returns
Loaded(outcome) ==
    IF outcome = "servers" THEN "list"
    ELSE IF outcome = "none" THEN "No servers found"
    ELSE "Error loading servers"

\* a click on the header of card c: collapse an expanded card; expand a
\* collapsed one and, when serversLoaded is false, call loadCityServers,
\* which runs to its fetch
HeaderClick(c) ==
    /\ c <= Len(cards)
    /\ clicks < MaxClicks
    /\ clicks' = clicks + 1
    /\ cards' = [cards EXCEPT ![c] =
          IF cards[c].display = "block"
          THEN [@ EXCEPT !.display = "none"]
          ELSE IF ~cards[c].serversLoaded
               THEN [@ EXCEPT !.display = "block", !.loadCalls = @ + 1, !.loading = @ + 1,
                              !.container = "Loading servers..."]
               ELSE [@ EXCEPT !.display = "block"]]
    /\ UNCHANGED <<listVars, findVars, serverVars>>

\* the fetch of a loadCityServers call on card c returns: the container is
\* filled, the call returns and the click handler sets serversLoaded
LoadReturns(c, outcome) ==
    /\ c <= Len(cards)
    /\ cards[c].loading > 0
    /\ cards' = [cards EXCEPT ![c] =
          [@ EXCEPT !.loading = @ - 1, !.container = Loaded(outcome),
                    !.serversLoaded = TRUE]]
    /\ UNCHANGED <<clicks, listVars, findVars, serverVars>>

InitCards ==
    /\ \E n \in 1..MaxCards : cards = [c \in 1..n |-> NewCard]
    /\ clicks = 0
    /\ locations = <<>>
    /\ servers = <<>>
    /\ net = <<>>
    /\ SelectIdle
    /\ ProbeIdle
    /\ RepeatIdle
    /\ Step4Idle
    /\ DistanceIdle
    /\ PingIdle
    /\ PairIdle
    /\ ListIdle
    /\ FindIdle
    /\ geolocation = TRUE

NextCards ==
    \/ \E c \in 1..MaxCards : HeaderClick(c)
    \/ \E c \in 1..MaxCards, outcome \in LoadOutcomes : LoadReturns(c, outcome)

SpecCards == InitCards /\ [][NextCards]_vars

----------------------------------------------------------------------------
(* The page: the server list of a card, its Test All button and the Test   *)
(* Latency button of every server (loadCityServers)                        *)

MaxServers == 2
MaxPingClicks == 2
MaxRuns == 2

\* the latency stored for a server whose ping did not succeed
TimeoutMark == 999

\* what a fetch of /api/ping/:hostname gives the page: the JSON of the
\* server, or an exception of fetch or response.json()
PingAnswers ==
    {[status |-> "success", latency |-> ms] : ms \in {0, 40, TimeoutMark}}
    \cup {[status |-> "timeout", latency |-> Null], [status |-> "failed", latency |-> Null]}

\* data.status === 'success' && data.latency ? data.latency : 999, and 999
\* in the catch block
StoredLatency(data) ==
    IF data.status = "success" /\ Truthy(data.latency) THEN data.latency ELSE TimeoutMark

Nothing == [kind |-> "", ms |-> 0]
Testing == [kind |-> "testing", ms |-> 0]
Timeout == [kind |-> "Timeout", ms |-> 0]
Milliseconds(ms) == [kind |-> "ms", ms |-> ms]

\* the latency cell renderServers builds for a server
Cell(latency) ==
    IF latency = Null THEN Nothing
    ELSE IF latency < TimeoutMark THEN Milliseconds(latency) ELSE Timeout

\* renderServers on the Test All button: shown again and enabled when some
\* server is untested, otherwise gone with the cleared container
RenderedTestAll(list) ==
    IF \E s \in 1..Len(list) : list[s] = Null
    THEN [disabled |-> FALSE, attached |-> TRUE]
    ELSE [testAllButton EXCEPT !.attached = FALSE]

\* renderServers(): the container is cleared and rebuilt from serverDataList:
\* the Test All button, a fresh Test Latency button and a latency cell per server
renderServers(list) ==
    /\ testAllButton' = RenderedTestAll(list)
    /\ pingButtons' = [s \in 1..Len(list) |-> [disabled |-> FALSE]]
    /\ latencyResult' = [s \in 1..Len(list) |-> Cell(list[s])]

\* the answers received so far are on display
Rendered(answers) == [s \in 1..Len(answers) |-> [answers[s] EXCEPT !.rendered = TRUE]]

NoAnswer == [status |-> "none", latency |-> Null, rendered |-> TRUE]

Received(data) == [status |-> data.status, latency |-> data.latency, rendered |-> FALSE]

\* a click on Test All: the button is disabled and a ping of every server is sent
TestAllClick ==
    /\ testAllButton.attached
    /\ ~testAllButton.disabled
    /\ Len(runs) < MaxRuns
    /\ testAllButton' = [testAllButton EXCEPT !.disabled = TRUE]
    /\ runs' = Append(runs, 1..Len(serverDataList))
    /\ UNCHANGED <<serverDataList, pings, pingButtons, latencyResult, latest, pingClicks,
                   cardVars, findVars, serverVars>>

\* a ping of run r returns for server s: its latency is stored; when it is
\* the last of the run, Promise.all resolves: renderServers() and the
\* button is hidden
RunPingReturns(r, s, data) ==
    /\ r <= Len(runs)
    /\ s \in runs[r]
    /\ serverDataList' = [serverDataList EXCEPT ![s] = StoredLatency(data)]
    /\ IF runs[r] = {s}
       THEN /\ runs' = SubSeq(runs, 1, r - 1) \o SubSeq(runs, r + 1, Len(runs))
            /\ testAllButton' = [RenderedTestAll(serverDataList') EXCEPT !.attached = FALSE]
            /\ pingButtons' = [t \in 1..Len(serverDataList) |-> [disabled |-> FALSE]]
            /\ latencyResult' = [t \in 1..Len(serverDataList) |-> Cell(serverDataList'[t])]
            /\ latest' = Rendered([latest EXCEPT ![s] = Received(data)])
       ELSE /\ runs' = [runs EXCEPT ![r] = @ \ {s}]
            /\ latest' = [latest EXCEPT ![s] = Received(data)]
            /\ UNCHANGED <<testAllButton, pingButtons, latencyResult>>
    /\ UNCHANGED <<pings, pingClicks, cardVars, findVars, serverVars>>

\* a click on the Test Latency button of server s
PingClick(s) ==
    /\ s <= Len(serverDataList)
    /\ ~pingButtons[s].disabled
    /\ pingClicks < MaxPingClicks
    /\ pingClicks' = pingClicks + 1
    /\ pingButtons' = [pingButtons EXCEPT ![s].disabled = TRUE]
    /\ latencyResult' = [latencyResult EXCEPT ![s] = Testing]
    /\ pings' = [pings EXCEPT ![s] = @ + 1]
    /\ UNCHANGED <<serverDataList, testAllButton, runs, latest, cardVars, findVars,
                   serverVars>>

\* the ping sent by a Test Latency click returns: the latency is stored and
\* renderServers() is called
PingReturns(s, data) ==
    /\ s <= Len(serverDataList)
    /\ pings[s] > 0
    /\ pings' = [pings EXCEPT ![s] = @ - 1]
    /\ serverDataList' = [serverDataList EXCEPT ![s] = StoredLatency(data)]
    /\ renderServers(serverDataList')
    /\ latest' = Rendered([latest EXCEPT ![s] = Received(data)])
    /\ UNCHANGED <<runs, pingClicks, cardVars, findVars, serverVars>>

\* the list as loadCityServers leaves it: no server tested, rendered once
InitList ==
    /\ \E n \in 1..MaxServers :
          /\ serverDataList = [s \in 1..n |-> Null]
          /\ pingButtons = [s \in 1..n |-> [disabled |-> FALSE]]
          /\ latencyResult = [s \in 1..n |-> Nothing]
          /\ latest = [s \in 1..n |-> NoAnswer]
          /\ pings = [s \in 1..n |-> 0]
    /\ testAllButton = [disabled |-> FALSE, attached |-> TRUE]
    /\ runs = <<>>
    /\ pingClicks = 0
    /\ locations = <<>>
    /\ servers = <<>>
    /\ net = <<>>
    /\ SelectIdle
    /\ ProbeIdle
    /\ RepeatIdle
    /\ Step4Idle
    /\ DistanceIdle
    /\ PingIdle
    /\ PairIdle
    /\ CardIdle
    /\ FindIdle
    /\ geolocation = TRUE

NextList ==
    \/ TestAllClick
    \/ \E r \in 1..MaxRuns, s \in 1..MaxServers, data \in PingAnswers :
          RunPingReturns(r, s, data)
    \/ \E s \in 1..MaxServers : PingClick(s)
    \/ \E s \in 1..MaxServers, data \in PingAnswers : PingReturns(s, data)

SpecList == InitList /\ [][NextList]_vars

----------------------------------------------------------------------------
(* The page: the Find Closest Server button and its geolocation callbacks *)

MaxFindClicks == 4

\* GeolocationPositionError.code; 0 stands for a code outside the three
PERMISSION_DENIED == 1
POSITION_UNAVAILABLE == 2
TIMEOUT == 3
ErrorCodes == {0, PERMISSION_DENIED, POSITION_UNAVAILABLE, TIMEOUT}

Positions == {[lat |-> 60, lon |-> 0], [lat |-> 0, lon |-> 60]}

\* what the fetch of /api/closest gives the success callback: a list, an
\* object with an error property, an exception of fetch or of
\* response.json(), or JSON that displayTopServers cannot iterate
ClosestOutcomes == {"list", "errorObject", "fetchFails", "jsonFails", "notAList"}

\* the switch of the error callback
GeoErrorMessage(code) ==
    IF code = PERMISSION_DENIED THEN "Permission denied. Please allow location access."
    ELSE IF code = POSITION_UNAVAILABLE THEN "Location information unavailable."
    ELSE IF code = TIMEOUT THEN "Location request timed out."
    ELSE "Unknown error."

\* a click on the button (a disabled button receives no click): without
\* navigator.geolocation the handler returns; otherwise it disables the
\* button and calls getCurrentPosition
FindClick ==
    /\ ~findClosestBtn.disabled
    /\ findClicks < MaxFindClicks
    /\ findClicks' = findClicks + 1
    /\ IF ~geolocation
       THEN /\ statusMessage' = "Geolocation is not supported by your browser"
            /\ UNCHANGED <<findClosestBtn, findPc>>
       ELSE /\ statusMessage' = "Getting your location..."
            /\ findClosestBtn' = [findClosestBtn EXCEPT !.disabled = TRUE]
            /\ findPc' = "locating"
    /\ UNCHANGED <<geolocation, userLocation, closestServerDiv, cardVars, listVars,
                   serverVars>>

\* the success callback runs to its fetch of /api/closest
GeoSuccess(position) ==
    /\ findPc = "locating"
    /\ userLocation' = position
    /\ statusMessage' = "Finding best servers... Testing top candidates by latency..."
    /\ findPc' = "fetching"
    /\ UNCHANGED <<geolocation, findClosestBtn, closestServerDiv, findClicks, cardVars,
                   listVars, serverVars>>

\* the error callback
GeoError(code) ==
    /\ findPc = "locating"
    /\ statusMessage' = GeoErrorMessage(code)
    /\ findClosestBtn' = [findClosestBtn EXCEPT !.disabled = FALSE]
    /\ findPc' = "idle"
    /\ UNCHANGED <<geolocation, userLocation, closestServerDiv, findClicks, cardVars,
                   listVars, serverVars>>

\* ClosestReturns without the finally block: the button is re-enabled on
\* the error-object path only
ClosestReturnsNoFinally(outcome) ==
    /\ findPc = "fetching"
    /\ IF outcome = "errorObject"
       THEN /\ statusMessage' = "topServers.error"
            /\ findClosestBtn' = [findClosestBtn EXCEPT !.disabled = FALSE]
            /\ UNCHANGED closestServerDiv
       ELSE IF outcome = "list"
       THEN /\ closestServerDiv' = "top servers"
            /\ statusMessage' = "Top 5 servers found based on actual network latency!"
            /\ UNCHANGED findClosestBtn
       ELSE /\ statusMessage' = "Error finding closest servers"
            /\ UNCHANGED <<findClosestBtn, closestServerDiv>>
    /\ findPc' = "idle"
    /\ UNCHANGED <<geolocation, userLocation, findClicks, cardVars, listVars, serverVars>>

\* the awaits of the success callback return or throw: the try block, the
\* catch block and the finally block
ClosestReturns(outcome) ==
    /\ findPc = "fetching"
    /\ IF outcome = "errorObject"
       THEN /\ statusMessage' = "topServers.error"
            /\ UNCHANGED closestServerDiv
       ELSE IF outcome = "list"
       THEN /\ closestServerDiv' = "top servers"
            /\ statusMessage' = "Top 5 servers found based on actual network latency!"
       ELSE /\ statusMessage' = "Error finding closest servers"
            /\ UNCHANGED closestServerDiv
    /\ findClosestBtn' = [findClosestBtn EXCEPT !.disabled = FALSE]
    /\ findPc' = "idle"
    /\ UNCHANGED <<geolocation, userLocation, findClicks, cardVars, listVars, serverVars>>

InitFind ==
    /\ geolocation \in BOOLEAN
    /\ FindIdle
    /\ locations = <<>>
    /\ servers = <<>>
    /\ net = <<>>
    /\ SelectIdle
    /\ ProbeIdle
    /\ RepeatIdle
    /\ Step4Idle
    /\ DistanceIdle
    /\ PingIdle
    /\ PairIdle
    /\ CardIdle
    /\ ListIdle

\* the browser calls one of the two callbacks of getCurrentPosition, and
\* the awaits of the success callback settle
FindCallback ==
    \/ \E position \in Positions : GeoSuccess(position)
    \/ \E code \in ErrorCodes : GeoError(code)
    \/ \E outcome \in ClosestOutcomes : ClosestReturns(outcome)

NextFind ==
    \/ FindClick
    \/ FindCallback

SpecFind == InitFind /\ [][NextFind]_vars

\* every callback the page waits for is eventually called
FairSpecFind == SpecFind /\ WF_vars(FindCallback)

----------------------------------------------------------------------------
(* Properties of GET /api/closest, checked under Spec *)

Min(a, b) == IF a < b THEN a ELSE b

\* measuredLatencyMs absent: null, or no tcpLatency property at all
Absent(v) == v \in {Null, Undefined}

\* the request passed validation and was answered
Answered == pc = "done" /\ catalogCalls > 0

\* STEP 1-3 ran on the rows of the catalog
Shortlisted == catalogCalls > 0 /\ ~fetchError

Body == response.body

\* the distance from the user coordinate, recomputed
DistanceTo(loc) == haversineDistance(lat, lon, loc.latitude, loc.longitude)

\* C1: for every catalog and all probe outcomes, the list /api/closest returns
\* has at most K_FINAL = 5 entries
C1_AtMostKFinal == pc = "done" => Len(Body) <= K_FINAL

\* the part of C1 the code keeps: the hybrid handler returns at most K_FINAL
C1_HybridAtMostKFinal == (handler = "hybrid" /\ pc = "done") => Len(Body) <= K_FINAL

AllProbesFailed == \A i \in 1..Len(latencyTests) : latencyTests[i].tcpLatency = Null

\* C2: when every shortlisted location ends up without a latency, the hybrid
\* handler still answers 200 with the first min(5, shortlist length) entries of
\* the shortlist, in ascending distance order, each without a measured latency
C2_FallbackByDistance ==
    (handler = "hybrid" /\ Answered /\ AllProbesFailed) =>
        /\ response.status = 200
        /\ Len(Body) = Min(K_FINAL, Len(topCandidates))
        /\ \A i \in 1..Len(Body) :
              /\ Body[i].city_code = topCandidates[i].city_code
              /\ Absent(Body[i].tcpLatency)
        /\ \A i, j \in 1..Len(Body) : i < j => DistanceTo(Body[i]) <= DistanceTo(Body[j])

C2_Witness ==
    /\ handler = "hybrid" /\ Answered /\ AllProbesFailed
    /\ attempts # {}
    /\ Len(topCandidates) > K_FINAL
    /\ Len(Body) = K_FINAL
    /\ Body[1].distance < Body[K_FINAL].distance

\* C3 as stated: the returned list is strictly ascending by measured latency
\* among the entries that have one, and no entry without a latency precedes
\* an entry with one
C3_StrictlyAscending ==
    (handler = "hybrid" /\ Answered) =>
        \A i, j \in 1..Len(Body) : i < j =>
            /\ (~Absent(Body[i].tcpLatency) /\ ~Absent(Body[j].tcpLatency)
                  => Body[i].tcpLatency < Body[j].tcpLatency)
            /\ ~(Absent(Body[i].tcpLatency) /\ ~Absent(Body[j].tcpLatency))

\* C3 amended: the returned list is ascending by measured latency among the
\* entries that have one, equal latencies allowed, and no entry without a
\* latency precedes an entry with one
C3_Ascending ==
    (handler = "hybrid" /\ Answered) =>
        \A i, j \in 1..Len(Body) : i < j =>
            /\ (~Absent(Body[i].tcpLatency) /\ ~Absent(Body[j].tcpLatency)
                  => Body[i].tcpLatency <= Body[j].tcpLatency)
            /\ ~(Absent(Body[i].tcpLatency) /\ ~Absent(Body[j].tcpLatency))

C3_Witness ==
    /\ handler = "hybrid" /\ Answered
    /\ \E i \in 1..Len(latencyTests) : latencyTests[i].tcpLatency = Null
    /\ \E i \in 1..Len(latencyTests) : latencyTests[i].tcpLatency # Null
    /\ \E i, j \in 1..Len(Body) : i < j /\ Body[i].tcpLatency = Body[j].tcpLatency
    /\ \E i, j \in 1..Len(Body) : i < j /\ Body[i].tcpLatency < Body[j].tcpLatency
    /\ \E i, j \in 1..Len(Body) : i < j /\ Body[i].city_code > Body[j].city_code

\* the coordinate the request carries is not a finite pair in range
InvalidCoordinate ==
    /\ pc # "idle"
    /\ \/ isNaN(lat) \/ isNaN(lon)
       \/ lat < -90 \/ lat > 90
       \/ lon < -180 \/ lon > 180

\* C4: a request with an invalid coordinate fails with InvalidCoordinate
\* without contacting the catalog and without issuing any probe
C4_InvalidCoordinateFailsFast ==
    InvalidCoordinate =>
        /\ catalogCalls = 0
        /\ serverQueries = <<>>
        /\ attempts = {}
        /\ pc = "done" => response.status = 400

\* the part of C4 the code keeps: a parameter that is not a number is refused
\* before the catalog is contacted
C4_NaNFailsFast ==
    (pc # "idle" /\ (isNaN(lat) \/ isNaN(lon))) =>
        /\ catalogCalls = 0 /\ serverQueries = <<>> /\ attempts = {}
        /\ pc = "done" /\ response.status = 400

\* C5: when the server_locations query fails the request fails with an error
\* instead of a list, and an invalid coordinate and a failed catalog are the
\* only reasons for which a request is not answered with a list
C5_CatalogFailureAborts ==
    pc = "done" =>
        /\ fetchError => response.status # 200
        /\ response.status # 200 => (fetchError \/ InvalidCoordinate)

\* both coordinates are present (non-null)
CoordinatePresent(loc) == loc.latitude # Null /\ loc.longitude # Null

Scored == {locationsWithDistance[i].city_code : i \in 1..Len(locationsWithDistance)}

\* C6: a location is scored and eligible for the shortlist if and only if its
\* latitude and longitude are both non-null, 0 included; a location without a
\* coordinate never appears in the result and never makes the call fail
C6_ScoredIffCoordinatePresent ==
    /\ Shortlisted =>
          \A i \in 1..Len(locations) :
              CoordinatePresent(locations[i]) <=> locations[i].city_code \in Scored
    /\ Answered =>
          /\ response.status = 200
          /\ \A i \in 1..Len(Body) : Body[i].latitude # Null /\ Body[i].longitude # Null

\* the coordinate-bearing locations, in catalog order
Present == SelectSeq(locations, CoordinatePresent)

\* catalog position of a location
CatalogIndex(city_code) == CHOOSE i \in 1..Len(locations) : locations[i].city_code = city_code

\* a is closer than b, or as close and earlier in the catalog
Precedes(a, b) ==
    \/ DistanceTo(a) < DistanceTo(b)
    \/ /\ DistanceTo(a) = DistanceTo(b)
       /\ CatalogIndex(a.city_code) < CatalogIndex(b.city_code)

\* C7: the shortlist is the first min(25, n) of the n coordinate-bearing
\* locations in ascending distance order, equal distances in catalog order
C7_ShortlistClosestStable ==
    Shortlisted =>
        /\ Len(topCandidates) = Min(K_GEO, Len(Present))
        /\ \A i \in 1..Len(topCandidates) :
              /\ \E p \in 1..Len(Present) : Present[p].city_code = topCandidates[i].city_code
              /\ topCandidates[i].geoDistance = DistanceTo(topCandidates[i])
        /\ \A i, j \in 1..Len(topCandidates) :
              i < j => Precedes(topCandidates[i], topCandidates[j])
        /\ \A p \in 1..Len(Present) :
              (\A i \in 1..Len(topCandidates) :
                   topCandidates[i].city_code # Present[p].city_code)
              => \A i \in 1..Len(topCandidates) : Precedes(topCandidates[i], Present[p])

\* the part of C6 and C7 the code keeps: with no coordinate equal to 0
NoZeroCoordinate ==
    \A i \in 1..Len(locations) : locations[i].latitude # 0 /\ locations[i].longitude # 0
C6_AwayFromZero == NoZeroCoordinate => C6_ScoredIffCoordinatePresent
C7_AwayFromZero == NoZeroCoordinate => C7_ShortlistClosestStable

\* the member servers of a shortlisted location
Members(city_code) == servers[city_code].rows

\* what probing a member returns: the latency of the first of the ports
\* 443, 80 that connects
MemberLatency(row) ==
    IF row.ipv4_addr_in = Null THEN Null
    ELSE IF net[row.ipv4_addr_in].p443.event = "connect"
         THEN net[row.ipv4_addr_in].p443.latency
         ELSE IF net[row.ipv4_addr_in].p80.event = "connect"
              THEN net[row.ipv4_addr_in].p80.latency
              ELSE Null

MemberLatencies(city_code) ==
    {MemberLatency(Members(city_code)[k]) : k \in 1..Len(Members(city_code))} \ {Null}

\* the location's latency is the minimum of its members' latencies and its
\* server is a member that attained it
FastestMemberChosen(t) ==
    MemberLatencies(t.city_code) # {} =>
        /\ t.tcpLatency \in MemberLatencies(t.city_code)
        /\ \A l \in MemberLatencies(t.city_code) : t.tcpLatency <= l
        /\ \E k \in 1..Len(Members(t.city_code)) :
              /\ Members(t.city_code)[k] = t.server
              /\ MemberLatency(t.server) = t.tcpLatency

AfterStep4 == handler = "hybrid" /\ pc \in {"step5", "done"} /\ catalogCalls > 0

CatalogRow(city_code) == locations[CatalogIndex(city_code)]

\* some member server of the location returns a latency
Reachable(city_code) == MemberLatencies(city_code) # {}

MemberHostnames(city_code) ==
    {Members(city_code)[k].hostname : k \in 1..Len(Members(city_code))}

\* C12: a failure of one item (a member that does not answer, a servers query
\* that fails or returns no row, a location without provider or speed) never
\* fails the request: the answer is 200 with a list, the list is not empty
\* when the shortlist is not, every entry carries the catalog's data of its
\* own location and a member of it (or the placeholder), and in the hybrid
\* handler an entry is without latency only when no member of its own location
\* returned one
C12_ItemFailureNeverFails ==
    Answered =>
        /\ response.status = 200
        /\ response.error = ""
        /\ topCandidates # <<>> => Body # <<>>
        /\ \A i \in 1..Len(Body) :
              /\ Body[i].provider = CatalogRow(Body[i].city_code).provider
              /\ Body[i].speed = CatalogRow(Body[i].city_code).speed
              /\ Body[i].latitude = CatalogRow(Body[i].city_code).latitude
              /\ Body[i].longitude = CatalogRow(Body[i].city_code).longitude
              /\ Body[i].distance = RoundKm(DistanceTo(CatalogRow(Body[i].city_code)))
              /\ Body[i].hostname \in MemberHostnames(Body[i].city_code)
                                       \cup {PlaceholderName(Body[i].city_code)}
              /\ handler = "hybrid" =>
                    IF Reachable(Body[i].city_code)
                    THEN /\ Body[i].tcpLatency \in MemberLatencies(Body[i].city_code)
                         /\ \A l \in MemberLatencies(Body[i].city_code) :
                               Body[i].tcpLatency <= l
                    ELSE Absent(Body[i].tcpLatency)

C12_Witness ==
    /\ handler = "hybrid"
    /\ Answered
    /\ response.status = 200
    /\ \E i \in 1..Len(topCandidates) : servers[topCandidates[i].city_code].isNull
    /\ \E i \in 1..Len(topCandidates) :
          /\ ~servers[topCandidates[i].city_code].isNull
          /\ Members(topCandidates[i].city_code) = <<>>
    /\ \E i \in 1..Len(topCandidates) :
          /\ Members(topCandidates[i].city_code) # <<>>
          /\ ~Reachable(topCandidates[i].city_code)
    /\ \E i \in 1..Len(Body) : Body[i].provider = Null /\ ~Absent(Body[i].tcpLatency)
    /\ \E i \in 1..Len(Body) : Body[i].speed = Null

\* C13: STEP 4 of the hybrid handler yields exactly one result per
\* shortlisted location, in the order of the shortlist; a location none of
\* whose members returns a latency, or without members, is among them with
\* latency null and with one of its members as server, or with none
C13_OneResultPerShortlisted ==
    AfterStep4 =>
        /\ Len(latencyTests) = Len(topCandidates)
        /\ \A i \in 1..Len(latencyTests) :
              /\ latencyTests[i].city_code = topCandidates[i].city_code
              /\ ~Reachable(topCandidates[i].city_code) =>
                    /\ latencyTests[i].tcpLatency = Null
                    /\ \/ latencyTests[i].server = NullServer
                       \/ \E k \in 1..Len(Members(topCandidates[i].city_code)) :
                             latencyTests[i].server = Members(topCandidates[i].city_code)[k]
                    /\ Members(topCandidates[i].city_code) = <<>>
                          => latencyTests[i].server = NullServer

C13_Witness ==
    /\ AfterStep4
    /\ \E i \in 1..Len(latencyTests) :
          /\ Members(latencyTests[i].city_code) = <<>>
          /\ latencyTests[i].server = NullServer
          /\ latencyTests[i].tcpLatency = Null
    /\ \E i \in 1..Len(latencyTests) :
          /\ Members(latencyTests[i].city_code) # <<>>
          /\ ~Reachable(latencyTests[i].city_code)
          /\ latencyTests[i].server = Members(latencyTests[i].city_code)[1]
          /\ latencyTests[i].tcpLatency = Null
    /\ \E i \in 1..Len(latencyTests) : latencyTests[i].tcpLatency # Null

\* C17: in the fallback of the hybrid handler (no location has a latency)
\* every returned entry carries the first member server the store returns for
\* its location, hostname and address, and no server (the placeholder name,
\* no address) when the location has no member
C17_FallbackFirstMember ==
    (handler = "hybrid" /\ Answered /\ AllProbesFailed) =>
        \A i \in 1..Len(Body) :
            IF Members(Body[i].city_code) # <<>>
            THEN /\ Body[i].hostname = Members(Body[i].city_code)[1].hostname
                 /\ Body[i].ipv4 = Members(Body[i].city_code)[1].ipv4_addr_in
            ELSE /\ Body[i].hostname = PlaceholderName(Body[i].city_code)
                 /\ Body[i].ipv4 = Undefined

C17_Witness ==
    /\ handler = "hybrid"
    /\ Answered
    /\ AllProbesFailed
    /\ \E i \in 1..Len(Body) :
          /\ Len(Members(Body[i].city_code)) = 2
          /\ Body[i].hostname = Members(Body[i].city_code)[1].hostname
    /\ \E i \in 1..Len(Body) :
          /\ Members(Body[i].city_code) = <<>>
          /\ Body[i].hostname = PlaceholderName(Body[i].city_code)

\* the shortlisted locations some member of which returned a latency
MeasuredLocations ==
    {i \in 1..Len(topCandidates) : Reachable(topCandidates[i].city_code)}

\* C21: when some shortlisted location has a measured latency, the hybrid
\* handler returns measured locations only, min(5, number of measured
\* locations) of them: the list is not filled up with unmeasured locations
C21_MeasuredOnly ==
    (handler = "hybrid" /\ Answered /\ MeasuredLocations # {}) =>
        /\ Len(Body) = Min(K_FINAL, Cardinality(MeasuredLocations))
        /\ \A i \in 1..Len(Body) :
              /\ Reachable(Body[i].city_code)
              /\ ~Absent(Body[i].tcpLatency)

\* fewer than 5 measured locations among more than 5 shortlisted ones
C21_Witness ==
    /\ handler = "hybrid"
    /\ Answered
    /\ Len(topCandidates) > K_FINAL
    /\ Cardinality(MeasuredLocations) \in 1..(K_FINAL - 1)
    /\ Len(Body) = Cardinality(MeasuredLocations)

\* C22: the handler of server.js issues no probe; for a valid coordinate it
\* answers with min(25, n) candidates, n the number of coordinate-bearing
\* locations, in ascending distance order with the closest location first,
\* each with tcpLatency null and with a member server of its location, or
\* the placeholder name when the location has no member server
C22_ClientSideCandidates ==
    (handler = "clientSide" /\ Answered /\ Shortlisted /\ ~InvalidCoordinate) =>
        /\ response.status = 200
        /\ attempts = {}
        /\ Len(Body) = Min(ClientCandidates, Len(Present))
        /\ \A i, j \in 1..Len(Body) : i < j => DistanceTo(Body[i]) <= DistanceTo(Body[j])
        /\ \A p \in 1..Len(Present) :
              Body # <<>> /\ DistanceTo(Body[1]) <= DistanceTo(Present[p])
        /\ \A i \in 1..Len(Body) :
              /\ Body[i].tcpLatency = Null
              /\ IF Members(Body[i].city_code) # <<>>
                 THEN Body[i].hostname \in MemberHostnames(Body[i].city_code)
                 ELSE Body[i].hostname = PlaceholderName(Body[i].city_code)

\* the part of C22 the code keeps: with no coordinate equal to 0
C22_AwayFromZero == NoZeroCoordinate => C22_ClientSideCandidates

----------------------------------------------------------------------------
(* Properties of repeated requests, checked under SpecRepeat *)

\* the request answered is the one answered before: same handler, same
\* coordinate, and the catalog query returned the same rows
SameCallAsBefore ==
    /\ pc = "done"
    /\ requests > 0
    /\ previous.handler = handler
    /\ previous.lat = lat
    /\ previous.lon = lon
    /\ previous.fetchError = fetchError

----------------------------------------------------------------------------
(* Properties of hybrid STEP 4, checked under SpecConcurrent *)

\* C15: while STEP 4 of a request runs, the servers query of every
\* shortlisted location has been issued, and every member server with an
\* address of a location whose own query has returned has its probe started
\* (the attempt on the first port is issued), whatever the state of the other
\* queries and probes: no probe waits for another probe or another location
C15_ProbesStartUnordered ==
    pc = "awaitTests" =>
        /\ Len(memberFetch) = Len(topCandidates)
        /\ \A i \in 1..Len(memberFetch) :
              memberFetch[i] = "returned" =>
                  /\ Len(probes[i]) = Len(Members(topCandidates[i].city_code))
                  /\ \A k \in 1..Len(probes[i]) :
                        /\ probes[i][k] # "none"
                        /\ Truthy(Members(topCandidates[i].city_code)[k].ipv4_addr_in) =>
                              <<Members(topCandidates[i].city_code)[k].ipv4_addr_in, ports[1]>>
                                  \in attempts

\* the two probes of one location are under way, one of them already on its
\* second port, while the query of another location has not returned
C15_Witness ==
    /\ pc = "awaitTests"
    /\ \E i, j \in 1..Len(memberFetch) :
          /\ memberFetch[i] = "issued"
          /\ memberFetch[j] = "returned"
          /\ Len(probes[j]) = 2
          /\ probes[j][1] = "p443"
          /\ probes[j][2] = "p80"

\* C16: every request that has started is answered, and answered once: it
\* reaches its response, a list (200) or an error (400), and a response sent
\* is not replaced
C16_EveryCallCompletes ==
    /\ (pc # "idle") ~> (pc = "done" /\ response.status \in {200, 400})
    /\ [][response # NoResponse => response' = response]_vars

\* a hybrid request is answered after probes that timed out on both ports
C16_Witness ==
    /\ pc = "done"
    /\ handler = "hybrid"
    /\ response.status = 200
    /\ Len(memberFetch) = 2
    /\ \E i \in 1..Len(probes) : \E k \in 1..Len(probes[i]) :
          /\ probes[i][k] = "done"
          /\ <<Members(topCandidates[i].city_code)[k].ipv4_addr_in, ports[2]>> \in attempts
          /\ MemberLatency(Members(topCandidates[i].city_code)[k]) = Null

----------------------------------------------------------------------------
(* Properties of the probe, checked under SpecProbe *)

Failed(sock) == sock.ended \in {"timeout", "error", "throw"}

\* C9: a probe attempts port 443 then port 80, each at most once; port 80 only
\* after the attempt on 443 failed; it returns the latency of the first port
\* that connects, and null exactly when both attempts failed
C9_PortsInOrderNoRetry ==
    /\ Len(sockets) <= Len(ports)
    /\ \A i \in 1..Len(sockets) : sockets[i].port = ports[i]
    /\ \A i \in 2..Len(sockets) : Failed(sockets[i - 1])
    /\ ppc = "done" =>
          /\ probeResult = Null <=>
                (Len(sockets) = Len(ports) /\ \A i \in 1..Len(sockets) : Failed(sockets[i]))
          /\ probeResult # Null =>
                /\ sockets[Len(sockets)].ended = "connect"
                /\ probeResult = PortOutcome(probeHost, sockets[Len(sockets)].port).latency
          /\ probeResult = testServerLatency(probeHost)

C9_Witness ==
    /\ ppc = "done"
    /\ Len(sockets) = 2
    /\ sockets[1].port = 443 /\ Failed(sockets[1])
    /\ sockets[2].port = 80 /\ sockets[2].ended = "connect"
    /\ probeResult = 0

\* C10: when an attempt has returned its result, after connect, timeout,
\* error or an exception of connect, its socket has been destroyed
C10_SocketDestroyedOnReturn ==
    \A i \in 1..Len(sockets) :
        (i < Len(sockets) \/ resolved # Pending) => sockets[i].state = "destroyed"

C10_Witness ==
    /\ Len(sockets) = 2
    /\ resolved # Pending
    /\ sockets[1].ended = "timeout" /\ sockets[1].state = "destroyed"
    /\ sockets[2].ended = "throw" /\ sockets[2].state = "destroyed"

\* C11: a probe never rejects: neither the promise of an attempt nor the
\* probe itself ends in a rejection, an attempt that met a timeout, an error
\* or an exception of connect resolved with null, and the probe returns a
\* latency or null
C11_ProbeNeverRejects ==
    /\ resolved # Rejected
    /\ probeResult # Rejected
    /\ (sockets # <<>> /\ Failed(sockets[Len(sockets)])) => resolved = Null
    /\ ppc = "done" => probeResult \in ProbeLatencies \cup {Null}

C11_Witness ==
    /\ ppc = "done"
    /\ Len(sockets) = 2
    /\ sockets[1].ended = "throw"
    /\ sockets[2].ended = "error"
    /\ probeResult = Null

----------------------------------------------------------------------------
(* Properties of haversineDistance, checked under SpecDistance *)

Swapped(c, d) ==
    /\ c.lat1 = d.lat2 /\ c.lon1 = d.lon2
    /\ c.lat2 = d.lat1 /\ c.lon2 = d.lon1

C19_ZeroOnSamePointNeverNegative ==
    \A i \in 1..Len(calls) :
        /\ (calls[i].lat1 = calls[i].lat2 /\ calls[i].lon1 = calls[i].lon2)
              => calls[i].distance = 0
        /\ calls[i].distance # NaN => calls[i].distance >= 0

C19_Witness ==
    /\ \E i \in 1..Len(calls) :
          /\ calls[i].lat1 = 60 /\ calls[i].lat2 = 60
          /\ calls[i].lon1 = -120 /\ calls[i].lon2 = -120
          /\ calls[i].distance = 0

\* C20: haversineDistance returns a finite number, never NaN, for every
\* pair of valid coordinates, antipodal points included
C20_NeverNaN ==
    \A i \in 1..Len(calls) : calls[i].distance # NaN

----------------------------------------------------------------------------
(* Properties of GET /api/ping/:hostname, checked under SpecPing *)

\* the rows the store holds for the requested hostname
StoredRows ==
    {row \in UNION {{servers[c].rows[k] : k \in DOMAIN servers[c].rows} :
                        c \in DOMAIN servers} : row.hostname = pingHost}

\* the lookup did not throw and gave no address to probe: the hostname is
\* unknown to it (no row, or no data at all) or its row has no ipv4 address
NothingToProbe ==
    /\ lookup # "throws"
    /\ lookup = "fails" \/ \A row \in StoredRows : row.ipv4_addr_in = Null

\* C23: GET /api/ping/:hostname always answers HTTP 200 with a JSON body:
\* status "success" with the latency exactly when the probe of the ipv4
\* address returned a latency; status "error" with latency null and without
\* any probe when the hostname is unknown or has no ipv4 address; status
\* "timeout" with latency null in every other case
C23_PingAlwaysJson ==
    pingPc = "done" =>
        /\ pingResponse.http = 200
        /\ pingResponse.hostname = pingHost
        /\ pingResponse.status = "success" <=> (ppc = "done" /\ probeResult # Null)
        /\ pingResponse.status = "success" => pingResponse.latency = probeResult
        /\ NothingToProbe =>
              pingResponse.status = "error" /\ pingResponse.latency = Null /\ sockets = <<>>
        /\ (~NothingToProbe /\ pingResponse.status # "success") =>
              pingResponse.status = "timeout" /\ pingResponse.latency = Null

\* a success measured on port 80 after port 443 gave nothing
C23_Witness ==
    /\ pingPc = "done"
    /\ pingResponse.status = "success"
    /\ Len(sockets) = Len(ports)
    /\ pingResponse.latency = net[probeHost].p80.latency

----------------------------------------------------------------------------
(* Properties of two requests in one process, checked under SpecPair *)

\* what the running request is answered when it is the only request: the
\* steps of its handler on its own coordinate, catalog and probe outcomes
ResponseAlone ==
    IF isNaN(lat) \/ isNaN(lon)
    THEN [status |-> 400, error |-> "Invalid latitude or longitude", body |-> <<>>]
    ELSE LET rows == IF fetchError THEN <<>> ELSE locations
             top == TopCandidates(LocationsWithDistance(rows))
             measured == SelectSeq(LatencyTests(top), Measured)
             byLatency == Take(SortBy(measured, "tcpLatency"), K_FINAL)
             byDistance == Take(top, K_FINAL)
         IN  [status |-> 200, error |-> "",
              body |-> IF handler = "clientSide"
                       THEN [i \in 1..Len(top) |-> ClientCandidate(top[i])]
                       ELSE IF measured # <<>>
                            THEN [i \in 1..Len(byLatency) |-> HybridEntry(byLatency[i])]
                            ELSE [i \in 1..Len(byDistance) |->
                                    HybridEntry(FallbackServer(byDistance[i]))]]

\* C24: two /api/closest requests handled concurrently do not influence each
\* other: the response of each equals the response the same request receives
\* when it runs alone against the same catalog and probe outcomes
C24_NoInterference == pc = "done" => response = ResponseAlone

\* both requests were in flight together, asked from different coordinates,
\* and are answered with different non-empty lists
C24_Witness ==
    /\ overlapped
    /\ pc = "done"
    /\ parked.pc = "done"
    /\ handler = "hybrid"
    /\ <<lat, lon>> # <<parked.lat, parked.lon>>
    /\ Len(Body) > 0
    /\ Len(parked.response.body) > 0
    /\ response # parked.response
    /\ \E i \in 1..Len(Body) : Body[i].tcpLatency # Null

----------------------------------------------------------------------------
(* Properties of the city cards, checked under SpecCards *)

\* C25: for each rendered city card the member-server list is loaded
\* (loadCityServers is called) at most once, for every sequence of
\* expand/collapse clicks, including clicks during a load in flight
C25_LoadedAtMostOnce == \A c \in 1..Len(cards) : cards[c].loadCalls <= 1

----------------------------------------------------------------------------
(* Properties of the server list of a card, checked under SpecList *)

\* C26: while a Test All run is in flight the Test All button stays
\* disabled, so a second run cannot start before the first one finishes,
\* under every interleaving with Test Latency clicks and their completions
C26_TestAllStaysDisabled ==
    /\ runs # <<>> => testAllButton.disabled
    /\ Len(runs) <= 1

\* C27: a server whose latest /api/ping response has status "success" is
\* shown with its latency in milliseconds, and "Timeout" is shown only for
\* a server whose latest ping did not succeed, for every latency value
C27_SuccessShowsLatency ==
    \A s \in 1..Len(latest) :
        (latest[s].rendered /\ latencyResult[s] # Testing) =>
            /\ latest[s].status = "success" =>
                  latencyResult[s] = Milliseconds(latest[s].latency)
            /\ latencyResult[s] = Timeout => latest[s].status \notin {"success", "none"}

----------------------------------------------------------------------------
(* Properties of the Find Closest Server button, checked under FairSpecFind *)

\* C28: after every click on Find Closest Server that disables the button,
\* the button is eventually enabled again in every outcome: a list, an
\* error object, a failure of fetch or of the JSON, every geolocation error
C28_EventuallyReenabled == findClosestBtn.disabled ~> ~findClosestBtn.disabled

\* the button is enabled again after the catch block ran
C28_Witness ==
    /\ ~findClosestBtn.disabled
    /\ findPc = "idle"
    /\ userLocation # NoLocation
    /\ statusMessage = "Error finding closest servers"

====
